---- MODULE Spec2Model ----
(***************************************************************************)
(* The three dataset generators of medqc-system-test:                      *)
(*   generate_d2_soap_templates, generate_d6_disease_staging and           *)
(*   generate_d8_department_mapping.                                       *)
(* Each builds a list of records in memory, opens its output file for      *)
(* writing, dumps the list as JSON, closes the file and prints a summary.  *)
(*                                                                         *)
(* Text.  The TLA+ lexer reads ASCII only, so a non-ASCII character of a   *)
(* source literal is spelled \uXXXX (its code point); one such group       *)
(* stands for ONE character.  The original text is given in the comment    *)
(* beside each literal.  The strings generate_d2_soap_templates indexes,   *)
(* measures and interpolates are sequences of characters; the strings of   *)
(* the other two generators are only ever copied and are kept whole.       *)
(***************************************************************************)
EXTENDS Integers, Sequences, FiniteSets, TLC

\* Bound: the number of generator runs started in one behaviour.
MaxRuns == 2

(***************************************************************************)
(* generate_d2_soap_templates: literals                                    *)
(***************************************************************************)
\* src/generate_d2_soap_templates.py:4-9  the fixed disease list; a Python str is
\* modelled as the sequence of its characters
diseases ==
    << <<"\\u9ad8", "\\u8840", "\\u538b">>,   \* 高血压
       <<"2", "\\u578b", "\\u7cd6", "\\u5c3f", "\\u75c5">>,   \* 2型糖尿病
       <<"\\u51a0", "\\u5fc3", "\\u75c5">>,   \* 冠心病
       <<"\\u5fc3", "\\u529b", "\\u8870", "\\u7aed">>,   \* 心力衰竭
       <<"\\u623f", "\\u98a4">>,   \* 房颤
       <<"\\u8111", "\\u6897", "\\u6b7b">>,   \* 脑梗死
       <<"\\u80ba", "\\u708e">>,   \* 肺炎
       <<"\\u6162", "\\u963b", "\\u80ba">>,   \* 慢阻肺
       <<"\\u54ee", "\\u5598">>,   \* 哮喘
       <<"\\u809d", "\\u786c", "\\u5316">>,   \* 肝硬化
       <<"\\u6d88", "\\u5316", "\\u6027", "\\u6e83", "\\u75a1">>,   \* 消化性溃疡
       <<"\\u6025", "\\u6027", "\\u80f0", "\\u817a", "\\u708e">>,   \* 急性胰腺炎
       <<"\\u6162", "\\u6027", "\\u80be", "\\u75c5">>,   \* 慢性肾病
       <<"\\u80be", "\\u7ed3", "\\u77f3">>,   \* 肾结石
       <<"\\u8d2b", "\\u8840">>,   \* 贫血
       <<"\\u7532", "\\u4ea2">>,   \* 甲亢
       <<"\\u75db", "\\u98ce">>,   \* 痛风
       <<"\\u7c7b", "\\u98ce", "\\u6e7f", "\\u5173", "\\u8282", "\\u708e">>,   \* 类风湿关节炎
       <<"\\u8170", "\\u690e", "\\u95f4", "\\u76d8", "\\u7a81", "\\u51fa">>,   \* 腰椎间盘突出
       <<"\\u9aa8", "\\u6298">>,   \* 骨折
       <<"\\u9611", "\\u5c3e", "\\u708e">>,   \* 阑尾炎
       <<"\\u80c6", "\\u56ca", "\\u708e">>,   \* 胆囊炎
       <<"\\u4e73", "\\u817a", "\\u764c">>,   \* 乳腺癌
       <<"\\u80ba", "\\u764c">>,   \* 肺癌
       <<"\\u80c3", "\\u764c">>,   \* 胃癌
       <<"\\u6291", "\\u90c1", "\\u75c7">>,   \* 抑郁症
       <<"\\u766b", "\\u75eb">>,   \* 癫痫
       <<"\\u5e15", "\\u91d1", "\\u68ee", "\\u75c5">>,   \* 帕金森病
       <<"\\u6df1", "\\u9759", "\\u8109", "\\u8840", "\\u6813">>,   \* 深静脉血栓
       <<"\\u8d25", "\\u8840", "\\u75c7">> >>   \* 败血症

\* line 15: literal text 1 of the icdCode f-string: ICD-
icdCode_lit1 ==
    << "I", "C", "D", "-" >>

\* line 16: literal text 1 of the subjective f-string: 相关主诉：例如头晕、头痛、乏力等，持续X天/月/年...
subjective_lit1 ==
    << "\\u76f8", "\\u5173", "\\u4e3b", "\\u8bc9", "\\uff1a", "\\u4f8b", "\\u5982", "\\u5934", "\\u6655", "\\u3001",
       "\\u5934", "\\u75db", "\\u3001", "\\u4e4f", "\\u529b", "\\u7b49", "\\uff0c", "\\u6301", "\\u7eed", "X",
       "\\u5929", "/", "\\u6708", "/", "\\u5e74", ".", ".", "." >>

\* line 17: literal text 1 of the objective f-string: 相关客观检查：例如BP XXX/XXX mmHg，心率XX次/分，体温XX℃，实验室检查异常等...
objective_lit1 ==
    << "\\u76f8", "\\u5173", "\\u5ba2", "\\u89c2", "\\u68c0", "\\u67e5", "\\uff1a", "\\u4f8b", "\\u5982", "B",
       "P", " ", "X", "X", "X", "/", "X", "X", "X", " ",
       "m", "m", "H", "g", "\\uff0c", "\\u5fc3", "\\u7387", "X", "X", "\\u6b21",
       "/", "\\u5206", "\\uff0c", "\\u4f53", "\\u6e29", "X", "X", "\\u2103", "\\uff0c", "\\u5b9e",
       "\\u9a8c", "\\u5ba4", "\\u68c0", "\\u67e5", "\\u5f02", "\\u5e38", "\\u7b49", ".", ".", "." >>

\* line 18: literal text 1 of the assessment f-string: 诊断评估：例如
assessment_lit1 ==
    << "\\u8bca", "\\u65ad", "\\u8bc4", "\\u4f30", "\\uff1a", "\\u4f8b", "\\u5982" >>

\* line 18: literal text 2 of the assessment f-string: X级（极高危/高危/中危），病情稳定/进展/恶化...
assessment_lit2 ==
    << "X", "\\u7ea7", "\\uff08", "\\u6781", "\\u9ad8", "\\u5371", "/", "\\u9ad8", "\\u5371", "/",
       "\\u4e2d", "\\u5371", "\\uff09", "\\uff0c", "\\u75c5", "\\u60c5", "\\u7a33", "\\u5b9a", "/", "\\u8fdb",
       "\\u5c55", "/", "\\u6076", "\\u5316", ".", ".", "." >>

\* line 19: literal text 1 of the plan f-string: 治疗计划：1. 药物调整 2. 生活方式干预 3. 定期复查 4. 健康教育...
plan_lit1 ==
    << "\\u6cbb", "\\u7597", "\\u8ba1", "\\u5212", "\\uff1a", "1", ".", " ", "\\u836f", "\\u7269",
       "\\u8c03", "\\u6574", " ", "2", ".", " ", "\\u751f", "\\u6d3b", "\\u65b9", "\\u5f0f",
       "\\u5e72", "\\u9884", " ", "3", ".", " ", "\\u5b9a", "\\u671f", "\\u590d", "\\u67e5",
       " ", "4", ".", " ", "\\u5065", "\\u5eb7", "\\u6559", "\\u80b2", ".", ".",
       "." >>


(***************************************************************************)
(* generate_d2_soap_templates: the record built for one disease            *)
(***************************************************************************)
\* the decimal digits, indexed by value + 1
digits == <<"0", "1", "2", "3", "4", "5", "6", "7", "8", "9">>

\* line 15 {len(disease)}: the formatting of a non-negative int inside an
\* f-string, i.e. its decimal digits, most significant first
RECURSIVE int_str(_)
int_str(n) ==
    IF n < 10 THEN <<digits[n + 1]>>
    ELSE int_str(n \div 10) \o <<digits[(n % 10) + 1]>>

\* mutant: the length is taken one short
template_length_one_short(disease) ==
    [ disease    |-> disease,
      icdCode    |-> icdCode_lit1 \o <<disease[1]>> \o int_str(Len(disease) - 1),
      subjective |-> disease \o subjective_lit1,
      objective  |-> disease \o objective_lit1,
      assessment |-> disease \o assessment_lit1 \o disease \o assessment_lit2,
      plan       |-> disease \o plan_lit1 ]

\* lines 13-20: the dict built for one disease name
template(disease) ==
    [ disease    |-> disease,
      icdCode    |-> icdCode_lit1 \o <<disease[1]>> \o int_str(Len(disease)),
      subjective |-> disease \o subjective_lit1,
      objective  |-> disease \o objective_lit1,
      assessment |-> disease \o assessment_lit1 \o disease \o assessment_lit2,
      plan       |-> disease \o plan_lit1 ]

(***************************************************************************)
(* generate_d6_disease_staging: literals                                   *)
(***************************************************************************)
\* src/generate_d6_disease_staging.py:7-23  dict literal, in insertion order
tnm_diseases ==
    << <<"\\u80ba\\u764c", "C34">>,   \* 肺癌
       <<"\\u80c3\\u764c", "C16">>,   \* 胃癌
       <<"\\u809d\\u764c", "C22">>,   \* 肝癌
       <<"\\u7ed3\\u76f4\\u80a0\\u764c", "C18">>,   \* 结直肠癌
       <<"\\u4e73\\u817a\\u764c", "C50">>,   \* 乳腺癌
       <<"\\u98df\\u7ba1\\u764c", "C15">>,   \* 食管癌
       <<"\\u80f0\\u817a\\u764c", "C25">>,   \* 胰腺癌
       <<"\\u80be\\u764c", "C64">>,   \* 肾癌
       <<"\\u8180\\u80f1\\u764c", "C67">>,   \* 膀胱癌
       <<"\\u524d\\u5217\\u817a\\u764c", "C61">>,   \* 前列腺癌
       <<"\\u5bab\\u9888\\u764c", "C53">>,   \* 宫颈癌
       <<"\\u5375\\u5de2\\u764c", "C56">>,   \* 卵巢癌
       <<"\\u7532\\u72b6\\u817a\\u764c", "C73">>,   \* 甲状腺癌
       <<"\\u9ed1\\u8272\\u7d20\\u7624", "C43">>,   \* 黑色素瘤
       <<"\\u6dcb\\u5df4\\u7624", "C85">> >>   \* 淋巴瘤

\* src/generate_d6_disease_staging.py:41-45  dict literal, in insertion order
nyha_diseases ==
    << <<"\\u5fc3\\u529b\\u8870\\u7aed", "I50">>,   \* 心力衰竭
       <<"\\u98ce\\u6e7f\\u6027\\u5fc3\\u810f\\u75c5", "I09">>,   \* 风湿性心脏病
       <<"\\u6269\\u5f20\\u578b\\u5fc3\\u808c\\u75c5", "I42.0">> >>   \* 扩张型心肌病

\* src/generate_d6_disease_staging.py:62-66  dict literal, in insertion order
ckd_diseases ==
    << <<"\\u6162\\u6027\\u80be\\u75c5", "N18">>,   \* 慢性肾病
       <<"\\u7cd6\\u5c3f\\u75c5\\u80be\\u75c5", "E10.2">>,   \* 糖尿病肾病
       <<"\\u9ad8\\u8840\\u538b\\u80be\\u75c5", "I12">> >>   \* 高血压肾病

\* src/generate_d6_disease_staging.py:99-102  dict literal, in insertion order
child_pugh_diseases ==
    << <<"\\u809d\\u786c\\u5316", "K74">>,   \* 肝硬化
       <<"\\u809d\\u8870\\u7aed", "K72">> >>   \* 肝衰竭

\* src/generate_d6_disease_staging.py:200-216  dict literal, in insertion order
ao_fractures ==
    << <<"\\u80a1\\u9aa8\\u9888\\u9aa8\\u6298", "S72.0">>,   \* 股骨颈骨折
       <<"\\u80a1\\u9aa8\\u5e72\\u9aa8\\u6298", "S72.3">>,   \* 股骨干骨折
       <<"\\u80eb\\u9aa8\\u5e73\\u53f0\\u9aa8\\u6298", "S82.1">>,   \* 胫骨平台骨折
       <<"\\u8e1d\\u5173\\u8282\\u9aa8\\u6298", "S82.8">>,   \* 踝关节骨折
       <<"\\u6861\\u9aa8\\u8fdc\\u7aef\\u9aa8\\u6298", "S52.5">>,   \* 桡骨远端骨折
       <<"\\u80b1\\u9aa8\\u8fd1\\u7aef\\u9aa8\\u6298", "S42.2">>,   \* 肱骨近端骨折
       <<"\\u80b1\\u9aa8\\u5e72\\u9aa8\\u6298", "S42.3">>,   \* 肱骨干骨折
       <<"\\u9501\\u9aa8\\u9aa8\\u6298", "S42.0">>,   \* 锁骨骨折
       <<"\\u810a\\u67f1\\u538b\\u7f29\\u6027\\u9aa8\\u6298", "S32.0">>,   \* 脊柱压缩性骨折
       <<"\\u9aa8\\u76c6\\u9aa8\\u6298", "S32.8">>,   \* 骨盆骨折
       <<"\\u80a1\\u9aa8\\u9ac1\\u4e0a\\u9aa8\\u6298", "S72.4">>,   \* 股骨髁上骨折
       <<"\\u80eb\\u9aa8\\u5e72\\u9aa8\\u6298", "S82.2">>,   \* 胫骨干骨折
       <<"\\u8ddf\\u9aa8\\u9aa8\\u6298", "S92.0">>,   \* 跟骨骨折
       <<"\\u821f\\u9aa8\\u9aa8\\u6298", "S62.0">>,   \* 舟骨骨折
       <<"\\u6307\\u9aa8\\u9aa8\\u6298", "S62.6">> >>   \* 指骨骨折

\* src/generate_d6_disease_staging.py:25-38  nested loop over tnm_diseases, stagingSystem TNM, category 肿瘤分期
block01 ==
    [ nested |-> TRUE,
      items |-> tnm_diseases,
      stagingSystem |-> "TNM",
      category |-> "\\u80bf\\u7624\\u5206\\u671f",
      stage_infos |-> <<
        [stage |-> "I\\u671f", criteria |-> "T1-2N0M0",
         description |-> "\\u80bf\\u7624\\u5c40\\u9650\\u4e8e\\u539f\\u53d1\\u5668\\u5b98\\uff0c\\u65e0\\u6dcb\\u5df4\\u7ed3\\u8f6c\\u79fb"],   \* I期 | T1-2N0M0 | 肿瘤局限于原发器官，无淋巴结转移
        [stage |-> "II\\u671f", criteria |-> "T1-2N1M0 \\u6216 T3N0M0",
         description |-> "\\u80bf\\u7624\\u4fb5\\u72af\\u540c\\u4fa7\\u6dcb\\u5df4\\u7ed3"],   \* II期 | T1-2N1M0 或 T3N0M0 | 肿瘤侵犯同侧淋巴结
        [stage |-> "III\\u671f", criteria |-> "T3-4N1-2M0",
         description |-> "\\u5c40\\u90e8\\u665a\\u671f\\uff0c\\u533a\\u57df\\u6dcb\\u5df4\\u7ed3\\u5e7f\\u6cdb\\u53d7\\u7d2f"],   \* III期 | T3-4N1-2M0 | 局部晚期，区域淋巴结广泛受累
        [stage |-> "IV\\u671f", criteria |-> "\\u4efb\\u4f55T\\u4efb\\u4f55NM1",
         description |-> "\\u8fdc\\u5904\\u8f6c\\u79fb"]   \* IV期 | 任何T任何NM1 | 远处转移
      >> ]

\* src/generate_d6_disease_staging.py:46-59  nested loop over nyha_diseases, stagingSystem NYHA, category 心功能分级
block02 ==
    [ nested |-> TRUE,
      items |-> nyha_diseases,
      stagingSystem |-> "NYHA",
      category |-> "\\u5fc3\\u529f\\u80fd\\u5206\\u7ea7",
      stage_infos |-> <<
        [stage |-> "I\\u7ea7", criteria |-> "\\u65e0\\u75c7\\u72b6\\uff0c\\u65e5\\u5e38\\u6d3b\\u52a8\\u4e0d\\u53d7\\u9650",
         description |-> "\\u4f53\\u529b\\u6d3b\\u52a8\\u4e0d\\u53d7\\u9650\\u5236"],   \* I级 | 无症状，日常活动不受限 | 体力活动不受限制
        [stage |-> "II\\u7ea7", criteria |-> "\\u65e5\\u5e38\\u6d3b\\u52a8\\u8f7b\\u5ea6\\u53d7\\u9650\\uff0c\\u4f11\\u606f\\u65f6\\u65e0\\u75c7\\u72b6",
         description |-> "\\u4f53\\u529b\\u6d3b\\u52a8\\u8f7b\\u5ea6\\u53d7\\u9650"],   \* II级 | 日常活动轻度受限，休息时无症状 | 体力活动轻度受限
        [stage |-> "III\\u7ea7", criteria |-> "\\u65e5\\u5e38\\u6d3b\\u52a8\\u660e\\u663e\\u53d7\\u9650\\uff0c\\u4f11\\u606f\\u65f6\\u65e0\\u75c7\\u72b6",
         description |-> "\\u4f53\\u529b\\u6d3b\\u52a8\\u660e\\u663e\\u53d7\\u9650"],   \* III级 | 日常活动明显受限，休息时无症状 | 体力活动明显受限
        [stage |-> "IV\\u7ea7", criteria |-> "\\u4efb\\u4f55\\u4f53\\u529b\\u6d3b\\u52a8\\u5747\\u5f15\\u8d77\\u75c7\\u72b6\\uff0c\\u4f11\\u606f\\u65f6\\u4ea6\\u6709\\u75c7\\u72b6",
         description |-> "\\u4e0d\\u80fd\\u8fdb\\u884c\\u4efb\\u4f55\\u4f53\\u529b\\u6d3b\\u52a8"]   \* IV级 | 任何体力活动均引起症状，休息时亦有症状 | 不能进行任何体力活动
      >> ]

\* src/generate_d6_disease_staging.py:67-81  nested loop over ckd_diseases, stagingSystem CKD, category 肾病分期
block03 ==
    [ nested |-> TRUE,
      items |-> ckd_diseases,
      stagingSystem |-> "CKD",
      category |-> "\\u80be\\u75c5\\u5206\\u671f",
      stage_infos |-> <<
        [stage |-> "1\\u671f", criteria |-> "GFR \\u2265 90 mL/min/1.73m\\u00b2",
         description |-> "\\u80be\\u529f\\u80fd\\u6b63\\u5e38\\u6216\\u5347\\u9ad8\\uff0c\\u4f34\\u6709\\u80be\\u635f\\u4f24\\u8bc1\\u636e"],   \* 1期 | GFR ≥ 90 mL/min/1.73m² | 肾功能正常或升高，伴有肾损伤证据
        [stage |-> "2\\u671f", criteria |-> "GFR 60-89 mL/min/1.73m\\u00b2",
         description |-> "\\u80be\\u529f\\u80fd\\u8f7b\\u5ea6\\u4e0b\\u964d\\uff0c\\u4f34\\u6709\\u80be\\u635f\\u4f24\\u8bc1\\u636e"],   \* 2期 | GFR 60-89 mL/min/1.73m² | 肾功能轻度下降，伴有肾损伤证据
        [stage |-> "3\\u671f", criteria |-> "GFR 30-59 mL/min/1.73m\\u00b2",
         description |-> "\\u80be\\u529f\\u80fd\\u4e2d\\u5ea6\\u4e0b\\u964d"],   \* 3期 | GFR 30-59 mL/min/1.73m² | 肾功能中度下降
        [stage |-> "4\\u671f", criteria |-> "GFR 15-29 mL/min/1.73m\\u00b2",
         description |-> "\\u80be\\u529f\\u80fd\\u91cd\\u5ea6\\u4e0b\\u964d"],   \* 4期 | GFR 15-29 mL/min/1.73m² | 肾功能重度下降
        [stage |-> "5\\u671f", criteria |-> "GFR < 15 mL/min/1.73m\\u00b2 \\u6216\\u900f\\u6790",
         description |-> "\\u7ec8\\u672b\\u671f\\u80be\\u75c5"]   \* 5期 | GFR < 15 mL/min/1.73m² 或透析 | 终末期肾病
      >> ]

\* src/generate_d6_disease_staging.py:84-96  single loop over 慢性阻塞性肺疾病, stagingSystem GOLD, category 肺病分级
block04 ==
    [ nested |-> FALSE,
      items |-> << <<"\\u6162\\u6027\\u963b\\u585e\\u6027\\u80ba\\u75be\\u75c5", "J44">> >>,
      stagingSystem |-> "GOLD",
      category |-> "\\u80ba\\u75c5\\u5206\\u7ea7",
      stage_infos |-> <<
        [stage |-> "I\\u7ea7 (\\u8f7b\\u5ea6)", criteria |-> "FEV1/FVC < 0.70 \\u4e14 FEV1 \\u2265 80% \\u9884\\u8ba1\\u503c",
         description |-> "\\u8f7b\\u5ea6\\u6c14\\u6d41\\u53d7\\u9650"],   \* I级 (轻度) | FEV1/FVC < 0.70 且 FEV1 ≥ 80% 预计值 | 轻度气流受限
        [stage |-> "II\\u7ea7 (\\u4e2d\\u5ea6)", criteria |-> "FEV1/FVC < 0.70 \\u4e14 50% \\u2264 FEV1 < 80% \\u9884\\u8ba1\\u503c",
         description |-> "\\u4e2d\\u5ea6\\u6c14\\u6d41\\u53d7\\u9650"],   \* II级 (中度) | FEV1/FVC < 0.70 且 50% ≤ FEV1 < 80% 预计值 | 中度气流受限
        [stage |-> "III\\u7ea7 (\\u91cd\\u5ea6)", criteria |-> "FEV1/FVC < 0.70 \\u4e14 30% \\u2264 FEV1 < 50% \\u9884\\u8ba1\\u503c",
         description |-> "\\u91cd\\u5ea6\\u6c14\\u6d41\\u53d7\\u9650"],   \* III级 (重度) | FEV1/FVC < 0.70 且 30% ≤ FEV1 < 50% 预计值 | 重度气流受限
        [stage |-> "IV\\u7ea7 (\\u6781\\u91cd\\u5ea6)", criteria |-> "FEV1/FVC < 0.70 \\u4e14 FEV1 < 30% \\u9884\\u8ba1\\u503c \\u6216 FEV1 < 50% \\u9884\\u8ba1\\u503c\\u4f34\\u6162\\u6027\\u547c\\u5438\\u8870\\u7aed",
         description |-> "\\u6781\\u91cd\\u5ea6\\u6c14\\u6d41\\u53d7\\u9650"]   \* IV级 (极重度) | FEV1/FVC < 0.70 且 FEV1 < 30% 预计值 或 FEV1 < 50% 预计值伴慢性呼吸衰竭 | 极重度气流受限
      >> ]

\* src/generate_d6_disease_staging.py:103-115  nested loop over child_pugh_diseases, stagingSystem Child-Pugh, category 肝病分级
block05 ==
    [ nested |-> TRUE,
      items |-> child_pugh_diseases,
      stagingSystem |-> "Child-Pugh",
      category |-> "\\u809d\\u75c5\\u5206\\u7ea7",
      stage_infos |-> <<
        [stage |-> "A\\u7ea7", criteria |-> "5-6\\u5206",
         description |-> "\\u809d\\u529f\\u80fd\\u4ee3\\u507f\\u826f\\u597d"],   \* A级 | 5-6分 | 肝功能代偿良好
        [stage |-> "B\\u7ea7", criteria |-> "7-9\\u5206",
         description |-> "\\u809d\\u529f\\u80fd\\u5931\\u4ee3\\u507f"],   \* B级 | 7-9分 | 肝功能失代偿
        [stage |-> "C\\u7ea7", criteria |-> "10-15\\u5206",
         description |-> "\\u809d\\u529f\\u80fd\\u4e25\\u91cd\\u5931\\u4ee3\\u507f"]   \* C级 | 10-15分 | 肝功能严重失代偿
      >> ]

\* src/generate_d6_disease_staging.py:118-129  single loop over 高血压, stagingSystem 分级, category 心血管分级
block06 ==
    [ nested |-> FALSE,
      items |-> << <<"\\u9ad8\\u8840\\u538b", "I10">> >>,
      stagingSystem |-> "\\u5206\\u7ea7",
      category |-> "\\u5fc3\\u8840\\u7ba1\\u5206\\u7ea7",
      stage_infos |-> <<
        [stage |-> "1\\u7ea7", criteria |-> "\\u6536\\u7f29\\u538b140-159 mmHg \\u6216 \\u8212\\u5f20\\u538b90-99 mmHg",
         description |-> "\\u8f7b\\u5ea6\\u9ad8\\u8840\\u538b"],   \* 1级 | 收缩压140-159 mmHg 或 舒张压90-99 mmHg | 轻度高血压
        [stage |-> "2\\u7ea7", criteria |-> "\\u6536\\u7f29\\u538b160-179 mmHg \\u6216 \\u8212\\u5f20\\u538b100-109 mmHg",
         description |-> "\\u4e2d\\u5ea6\\u9ad8\\u8840\\u538b"],   \* 2级 | 收缩压160-179 mmHg 或 舒张压100-109 mmHg | 中度高血压
        [stage |-> "3\\u7ea7", criteria |-> "\\u6536\\u7f29\\u538b\\u2265180 mmHg \\u6216 \\u8212\\u5f20\\u538b\\u2265110 mmHg",
         description |-> "\\u91cd\\u5ea6\\u9ad8\\u8840\\u538b"]   \* 3级 | 收缩压≥180 mmHg 或 舒张压≥110 mmHg | 重度高血压
      >> ]

\* src/generate_d6_disease_staging.py:130-142  single loop over 高血压, stagingSystem 危险分层, category 心血管分级
block07 ==
    [ nested |-> FALSE,
      items |-> << <<"\\u9ad8\\u8840\\u538b", "I10">> >>,
      stagingSystem |-> "\\u5371\\u9669\\u5206\\u5c42",
      category |-> "\\u5fc3\\u8840\\u7ba1\\u5206\\u7ea7",
      stage_infos |-> <<
        [stage |-> "\\u4f4e\\u5371", criteria |-> "\\u65e0\\u9776\\u5668\\u5b98\\u635f\\u5bb3\\uff0c\\u65e0\\u7cd6\\u5c3f\\u75c5\\uff0c\\u65e0\\u5fc3\\u8840\\u7ba1\\u75be\\u75c5",
         description |-> "\\u672a\\u676510\\u5e74\\u5fc3\\u8840\\u7ba1\\u4e8b\\u4ef6\\u98ce\\u9669<15%"],   \* 低危 | 无靶器官损害，无糖尿病，无心血管疾病 | 未来10年心血管事件风险<15%
        [stage |-> "\\u4e2d\\u5371", criteria |-> "1-2\\u4e2a\\u5371\\u9669\\u56e0\\u7d20\\uff0c\\u65e0\\u9776\\u5668\\u5b98\\u635f\\u5bb3",
         description |-> "\\u672a\\u676510\\u5e74\\u5fc3\\u8840\\u7ba1\\u4e8b\\u4ef6\\u98ce\\u966915-20%"],   \* 中危 | 1-2个危险因素，无靶器官损害 | 未来10年心血管事件风险15-20%
        [stage |-> "\\u9ad8\\u5371", criteria |-> "\\u22653\\u4e2a\\u5371\\u9669\\u56e0\\u7d20 \\u6216 \\u9776\\u5668\\u5b98\\u635f\\u5bb3 \\u6216 \\u7cd6\\u5c3f\\u75c5",
         description |-> "\\u672a\\u676510\\u5e74\\u5fc3\\u8840\\u7ba1\\u4e8b\\u4ef6\\u98ce\\u966920-30%"],   \* 高危 | ≥3个危险因素 或 靶器官损害 或 糖尿病 | 未来10年心血管事件风险20-30%
        [stage |-> "\\u5f88\\u9ad8\\u5371", criteria |-> "\\u5df2\\u6709\\u5fc3\\u8840\\u7ba1\\u75be\\u75c5 \\u6216 \\u7cd6\\u5c3f\\u75c5\\u4f34\\u9776\\u5668\\u5b98\\u635f\\u5bb3",
         description |-> "\\u672a\\u676510\\u5e74\\u5fc3\\u8840\\u7ba1\\u4e8b\\u4ef6\\u98ce\\u9669>30%"]   \* 很高危 | 已有心血管疾病 或 糖尿病伴靶器官损害 | 未来10年心血管事件风险>30%
      >> ]

\* src/generate_d6_disease_staging.py:145-156  single loop over 糖尿病视网膜病变, stagingSystem 分期, category 糖尿病并发症分期
block08 ==
    [ nested |-> FALSE,
      items |-> << <<"\\u7cd6\\u5c3f\\u75c5\\u89c6\\u7f51\\u819c\\u75c5\\u53d8", "E10.3">> >>,
      stagingSystem |-> "\\u5206\\u671f",
      category |-> "\\u7cd6\\u5c3f\\u75c5\\u5e76\\u53d1\\u75c7\\u5206\\u671f",
      stage_infos |-> <<
        [stage |-> "\\u975e\\u589e\\u6b96\\u671f", criteria |-> "\\u5fae\\u52a8\\u8109\\u7624\\u3001\\u51fa\\u8840\\u3001\\u786c\\u6027\\u6e17\\u51fa",
         description |-> "\\u65e9\\u671f\\u75c5\\u53d8"],   \* 非增殖期 | 微动脉瘤、出血、硬性渗出 | 早期病变
        [stage |-> "\\u589e\\u6b96\\u524d\\u671f", criteria |-> "\\u68c9\\u7d6e\\u6591\\u3001\\u9759\\u8109\\u4e32\\u73e0\\u6837\\u6539\\u53d8",
         description |-> "\\u8fdb\\u5c55\\u671f\\u75c5\\u53d8"],   \* 增殖前期 | 棉絮斑、静脉串珠样改变 | 进展期病变
        [stage |-> "\\u589e\\u6b96\\u671f", criteria |-> "\\u65b0\\u751f\\u8840\\u7ba1\\u5f62\\u6210\\u3001\\u73bb\\u7483\\u4f53\\u51fa\\u8840",
         description |-> "\\u665a\\u671f\\u75c5\\u53d8"]   \* 增殖期 | 新生血管形成、玻璃体出血 | 晚期病变
      >> ]

\* src/generate_d6_disease_staging.py:157-170  single loop over 糖尿病肾病, stagingSystem 分期, category 糖尿病并发症分期
block09 ==
    [ nested |-> FALSE,
      items |-> << <<"\\u7cd6\\u5c3f\\u75c5\\u80be\\u75c5", "E10.2">> >>,
      stagingSystem |-> "\\u5206\\u671f",
      category |-> "\\u7cd6\\u5c3f\\u75c5\\u5e76\\u53d1\\u75c7\\u5206\\u671f",
      stage_infos |-> <<
        [stage |-> "I\\u671f", criteria |-> "\\u80be\\u5c0f\\u7403\\u9ad8\\u6ee4\\u8fc7\\uff0c\\u80be\\u810f\\u80a5\\u5927",
         description |-> "\\u65e9\\u671f\\u529f\\u80fd\\u4ea2\\u8fdb"],   \* I期 | 肾小球高滤过，肾脏肥大 | 早期功能亢进
        [stage |-> "II\\u671f", criteria |-> "\\u6b63\\u5e38\\u767d\\u86cb\\u767d\\u5c3f\\uff0c\\u80be\\u810f\\u75c5\\u7406\\u6539\\u53d8",
         description |-> "\\u6b63\\u5e38\\u767d\\u86cb\\u767d\\u5c3f\\u671f"],   \* II期 | 正常白蛋白尿，肾脏病理改变 | 正常白蛋白尿期
        [stage |-> "III\\u671f", criteria |-> "\\u5fae\\u91cf\\u767d\\u86cb\\u767d\\u5c3f",
         description |-> "\\u65e9\\u671f\\u80be\\u75c5\\u671f"],   \* III期 | 微量白蛋白尿 | 早期肾病期
        [stage |-> "IV\\u671f", criteria |-> "\\u4e34\\u5e8a\\u767d\\u86cb\\u767d\\u5c3f",
         description |-> "\\u4e34\\u5e8a\\u80be\\u75c5\\u671f"],   \* IV期 | 临床白蛋白尿 | 临床肾病期
        [stage |-> "V\\u671f", criteria |-> "\\u7ec8\\u672b\\u671f\\u80be\\u75c5",
         description |-> "\\u7ec8\\u672b\\u671f\\u80be\\u75c5"]   \* V期 | 终末期肾病 | 终末期肾病
      >> ]

\* src/generate_d6_disease_staging.py:171-182  single loop over 糖尿病周围神经病变, stagingSystem 分期, category 糖尿病并发症分期
block10 ==
    [ nested |-> FALSE,
      items |-> << <<"\\u7cd6\\u5c3f\\u75c5\\u5468\\u56f4\\u795e\\u7ecf\\u75c5\\u53d8", "E10.4">> >>,
      stagingSystem |-> "\\u5206\\u671f",
      category |-> "\\u7cd6\\u5c3f\\u75c5\\u5e76\\u53d1\\u75c7\\u5206\\u671f",
      stage_infos |-> <<
        [stage |-> "\\u65e0\\u75c7\\u72b6\\u671f", criteria |-> "\\u795e\\u7ecf\\u4f20\\u5bfc\\u901f\\u5ea6\\u5f02\\u5e38",
         description |-> "\\u65e0\\u4e34\\u5e8a\\u75c7\\u72b6"],   \* 无症状期 | 神经传导速度异常 | 无临床症状
        [stage |-> "\\u75c7\\u72b6\\u671f", criteria |-> "\\u611f\\u89c9\\u5f02\\u5e38\\u3001\\u75bc\\u75db\\u3001\\u9ebb\\u6728",
         description |-> "\\u51fa\\u73b0\\u4e34\\u5e8a\\u75c7\\u72b6"],   \* 症状期 | 感觉异常、疼痛、麻木 | 出现临床症状
        [stage |-> "\\u5e76\\u53d1\\u75c7\\u671f", criteria |-> "\\u8db3\\u6e83\\u75a1\\u3001Charcot\\u5173\\u8282",
         description |-> "\\u51fa\\u73b0\\u4e25\\u91cd\\u5e76\\u53d1\\u75c7"]   \* 并发症期 | 足溃疡、Charcot关节 | 出现严重并发症
      >> ]

\* src/generate_d6_disease_staging.py:185-197  single loop over 烧伤, stagingSystem 分度, category 创伤分度
block11 ==
    [ nested |-> FALSE,
      items |-> << <<"\\u70e7\\u4f24", "T30">> >>,
      stagingSystem |-> "\\u5206\\u5ea6",
      category |-> "\\u521b\\u4f24\\u5206\\u5ea6",
      stage_infos |-> <<
        [stage |-> "I\\u5ea6", criteria |-> "\\u7ea2\\u6591\\uff0c\\u65e0\\u6c34\\u75b1",
         description |-> "\\u8868\\u76ae\\u635f\\u4f24"],   \* I度 | 红斑，无水疱 | 表皮损伤
        [stage |-> "\\u6d45II\\u5ea6", criteria |-> "\\u6c34\\u75b1\\uff0c\\u57fa\\u5e95\\u6f6e\\u7ea2",
         description |-> "\\u771f\\u76ae\\u6d45\\u5c42\\u635f\\u4f24"],   \* 浅II度 | 水疱，基底潮红 | 真皮浅层损伤
        [stage |-> "\\u6df1II\\u5ea6", criteria |-> "\\u6c34\\u75b1\\uff0c\\u57fa\\u5e95\\u82cd\\u767d\\uff0c\\u75db\\u89c9\\u8fdf\\u949d",
         description |-> "\\u771f\\u76ae\\u6df1\\u5c42\\u635f\\u4f24"],   \* 深II度 | 水疱，基底苍白，痛觉迟钝 | 真皮深层损伤
        [stage |-> "III\\u5ea6", criteria |-> "\\u7126\\u75c2\\uff0c\\u65e0\\u75db\\u89c9",
         description |-> "\\u5168\\u5c42\\u76ae\\u80a4\\u635f\\u4f24"]   \* III度 | 焦痂，无痛觉 | 全层皮肤损伤
      >> ]

\* src/generate_d6_disease_staging.py:218-230  nested loop over ao_fractures, stagingSystem AO分型, category 骨折分型
block12 ==
    [ nested |-> TRUE,
      items |-> ao_fractures,
      stagingSystem |-> "AO\\u5206\\u578b",
      category |-> "\\u9aa8\\u6298\\u5206\\u578b",
      stage_infos |-> <<
        [stage |-> "A\\u578b", criteria |-> "\\u7b80\\u5355\\u9aa8\\u6298",
         description |-> "\\u9aa8\\u6298\\u7ebf\\u5355\\u4e00"],   \* A型 | 简单骨折 | 骨折线单一
        [stage |-> "B\\u578b", criteria |-> "\\u6954\\u5f62\\u9aa8\\u6298",
         description |-> "\\u6709\\u4e2d\\u95f4\\u9aa8\\u5757"],   \* B型 | 楔形骨折 | 有中间骨块
        [stage |-> "C\\u578b", criteria |-> "\\u590d\\u6742\\u9aa8\\u6298",
         description |-> "\\u7c89\\u788e\\u6027\\u9aa8\\u6298"]   \* C型 | 复杂骨折 | 粉碎性骨折
      >> ]

\* src/generate_d6_disease_staging.py:233-246  single loop over 肿瘤患者一般状况, stagingSystem ECOG PS, category 一般状况评分
block13 ==
    [ nested |-> FALSE,
      items |-> << <<"\\u80bf\\u7624\\u60a3\\u8005\\u4e00\\u822c\\u72b6\\u51b5", "Z08.8">> >>,
      stagingSystem |-> "ECOG PS",
      category |-> "\\u4e00\\u822c\\u72b6\\u51b5\\u8bc4\\u5206",
      stage_infos |-> <<
        [stage |-> "0\\u5206", criteria |-> "\\u6d3b\\u52a8\\u5b8c\\u5168\\u6b63\\u5e38\\uff0c\\u65e0\\u4efb\\u4f55\\u75c7\\u72b6",
         description |-> "\\u5b8c\\u5168\\u6d3b\\u52a8"],   \* 0分 | 活动完全正常，无任何症状 | 完全活动
        [stage |-> "1\\u5206", criteria |-> "\\u53ef\\u81ea\\u7531\\u6d3b\\u52a8\\uff0c\\u4f46\\u4e0d\\u80fd\\u4ece\\u4e8b\\u91cd\\u4f53\\u529b\\u52b3\\u52a8",
         description |-> "\\u8f7b\\u5ea6\\u75c7\\u72b6"],   \* 1分 | 可自由活动，但不能从事重体力劳动 | 轻度症状
        [stage |-> "2\\u5206", criteria |-> "\\u53ef\\u81ea\\u7531\\u6d3b\\u52a8\\uff0c\\u4f46\\u4e0d\\u80fd\\u4ece\\u4e8b\\u4efb\\u4f55\\u5de5\\u4f5c\\uff0c\\u65e5\\u95f4\\u5367\\u5e8a\\u65f6\\u95f4\\u5c11\\u4e8e50%",
         description |-> "\\u4e2d\\u5ea6\\u75c7\\u72b6"],   \* 2分 | 可自由活动，但不能从事任何工作，日间卧床时间少于50% | 中度症状
        [stage |-> "3\\u5206", criteria |-> "\\u65e5\\u95f4\\u5367\\u5e8a\\u65f6\\u95f4\\u591a\\u4e8e50%\\uff0c\\u4f46\\u53ef\\u751f\\u6d3b\\u81ea\\u7406",
         description |-> "\\u91cd\\u5ea6\\u75c7\\u72b6"],   \* 3分 | 日间卧床时间多于50%，但可生活自理 | 重度症状
        [stage |-> "4\\u5206", criteria |-> "\\u5b8c\\u5168\\u5367\\u5e8a\\uff0c\\u751f\\u6d3b\\u4e0d\\u80fd\\u81ea\\u7406",
         description |-> "\\u5b8c\\u5168\\u5367\\u5e8a"]   \* 4分 | 完全卧床，生活不能自理 | 完全卧床
      >> ]

\* src/generate_d6_disease_staging.py:249-260  single loop over 意识障碍, stagingSystem GCS, category 神经功能评分
block14 ==
    [ nested |-> FALSE,
      items |-> << <<"\\u610f\\u8bc6\\u969c\\u788d", "R40.2">> >>,
      stagingSystem |-> "GCS",
      category |-> "\\u795e\\u7ecf\\u529f\\u80fd\\u8bc4\\u5206",
      stage_infos |-> <<
        [stage |-> "3-8\\u5206", criteria |-> "\\u91cd\\u5ea6\\u610f\\u8bc6\\u969c\\u788d",
         description |-> "\\u660f\\u8ff7"],   \* 3-8分 | 重度意识障碍 | 昏迷
        [stage |-> "9-12\\u5206", criteria |-> "\\u4e2d\\u5ea6\\u610f\\u8bc6\\u969c\\u788d",
         description |-> "\\u55dc\\u7761\\u6216\\u660f\\u7761"],   \* 9-12分 | 中度意识障碍 | 嗜睡或昏睡
        [stage |-> "13-15\\u5206", criteria |-> "\\u8f7b\\u5ea6\\u610f\\u8bc6\\u969c\\u788d",
         description |-> "\\u6e05\\u9192\\u6216\\u5b9a\\u5411\\u529b\\u969c\\u788d"]   \* 13-15分 | 轻度意识障碍 | 清醒或定向力障碍
      >> ]

\* src/generate_d6_disease_staging.py:263-277  single loop over 麻醉风险评估, stagingSystem ASA PS, category 麻醉风险评估
block15 ==
    [ nested |-> FALSE,
      items |-> << <<"\\u9ebb\\u9189\\u98ce\\u9669\\u8bc4\\u4f30", "Z01.8">> >>,
      stagingSystem |-> "ASA PS",
      category |-> "\\u9ebb\\u9189\\u98ce\\u9669\\u8bc4\\u4f30",
      stage_infos |-> <<
        [stage |-> "I\\u7ea7", criteria |-> "\\u5065\\u5eb7\\u60a3\\u8005",
         description |-> "\\u65e0\\u7cfb\\u7edf\\u6027\\u75be\\u75c5"],   \* I级 | 健康患者 | 无系统性疾病
        [stage |-> "II\\u7ea7", criteria |-> "\\u8f7b\\u5ea6\\u7cfb\\u7edf\\u6027\\u75be\\u75c5",
         description |-> "\\u5982\\u8f7b\\u5ea6\\u9ad8\\u8840\\u538b\\u3001\\u7cd6\\u5c3f\\u75c5"],   \* II级 | 轻度系统性疾病 | 如轻度高血压、糖尿病
        [stage |-> "III\\u7ea7", criteria |-> "\\u91cd\\u5ea6\\u7cfb\\u7edf\\u6027\\u75be\\u75c5",
         description |-> "\\u5982\\u63a7\\u5236\\u4e0d\\u4f73\\u7684\\u9ad8\\u8840\\u538b\\u3001\\u7cd6\\u5c3f\\u75c5"],   \* III级 | 重度系统性疾病 | 如控制不佳的高血压、糖尿病
        [stage |-> "IV\\u7ea7", criteria |-> "\\u5371\\u53ca\\u751f\\u547d\\u7684\\u91cd\\u5ea6\\u7cfb\\u7edf\\u6027\\u75be\\u75c5",
         description |-> "\\u5982\\u4e0d\\u7a33\\u5b9a\\u5fc3\\u7ede\\u75db\\u3001\\u91cd\\u5ea6COPD"],   \* IV级 | 危及生命的重度系统性疾病 | 如不稳定心绞痛、重度COPD
        [stage |-> "V\\u7ea7", criteria |-> "\\u6fd2\\u6b7b\\u60a3\\u8005",
         description |-> "\\u9884\\u8ba124\\u5c0f\\u65f6\\u5185\\u6b7b\\u4ea1"],   \* V级 | 濒死患者 | 预计24小时内死亡
        [stage |-> "VI\\u7ea7", criteria |-> "\\u8111\\u6b7b\\u4ea1\\u60a3\\u8005",
         description |-> "\\u5668\\u5b98\\u6350\\u732e\\u8005"]   \* VI级 | 脑死亡患者 | 器官捐献者
      >> ]

\* src/generate_d6_disease_staging.py:280-294  single loop over 消化性溃疡出血, stagingSystem Forrest, category 消化道出血分级
block16 ==
    [ nested |-> FALSE,
      items |-> << <<"\\u6d88\\u5316\\u6027\\u6e83\\u75a1\\u51fa\\u8840", "K27.4">> >>,
      stagingSystem |-> "Forrest",
      category |-> "\\u6d88\\u5316\\u9053\\u51fa\\u8840\\u5206\\u7ea7",
      stage_infos |-> <<
        [stage |-> "Ia", criteria |-> "\\u6d3b\\u52a8\\u6027\\u55b7\\u5c04\\u72b6\\u51fa\\u8840",
         description |-> "\\u9ad8\\u5371"],   \* Ia | 活动性喷射状出血 | 高危
        [stage |-> "Ib", criteria |-> "\\u6d3b\\u52a8\\u6027\\u6e17\\u8840",
         description |-> "\\u9ad8\\u5371"],   \* Ib | 活动性渗血 | 高危
        [stage |-> "IIa", criteria |-> "\\u975e\\u6d3b\\u52a8\\u6027\\u53ef\\u89c1\\u8840\\u7ba1",
         description |-> "\\u4e2d\\u5371"],   \* IIa | 非活动性可见血管 | 中危
        [stage |-> "IIb", criteria |-> "\\u975e\\u6d3b\\u52a8\\u6027\\u9644\\u7740\\u8840\\u51dd\\u5757",
         description |-> "\\u4e2d\\u5371"],   \* IIb | 非活动性附着血凝块 | 中危
        [stage |-> "IIc", criteria |-> "\\u975e\\u6d3b\\u52a8\\u6027\\u9ed1\\u8272\\u6591\\u70b9\\u57fa\\u5e95",
         description |-> "\\u4f4e\\u5371"],   \* IIc | 非活动性黑色斑点基底 | 低危
        [stage |-> "III", criteria |-> "\\u6e05\\u6d01\\u57fa\\u5e95",
         description |-> "\\u4f4e\\u5371"]   \* III | 清洁基底 | 低危
      >> ]

\* src/generate_d6_disease_staging.py:297-312  single loop over 脑卒中功能预后, stagingSystem mRS, category 神经功能评分
block17 ==
    [ nested |-> FALSE,
      items |-> << <<"\\u8111\\u5352\\u4e2d\\u529f\\u80fd\\u9884\\u540e", "I63">> >>,
      stagingSystem |-> "mRS",
      category |-> "\\u795e\\u7ecf\\u529f\\u80fd\\u8bc4\\u5206",
      stage_infos |-> <<
        [stage |-> "0\\u5206", criteria |-> "\\u65e0\\u75c7\\u72b6",
         description |-> "\\u5b8c\\u5168\\u6062\\u590d"],   \* 0分 | 无症状 | 完全恢复
        [stage |-> "1\\u5206", criteria |-> "\\u65e0\\u660e\\u663e\\u6b8b\\u75be",
         description |-> "\\u80fd\\u591f\\u5b8c\\u6210\\u6240\\u6709\\u65e5\\u5e38\\u6d3b\\u52a8"],   \* 1分 | 无明显残疾 | 能够完成所有日常活动
        [stage |-> "2\\u5206", criteria |-> "\\u8f7b\\u5ea6\\u6b8b\\u75be",
         description |-> "\\u4e0d\\u80fd\\u5b8c\\u6210\\u6240\\u6709\\u75c5\\u524d\\u6d3b\\u52a8\\uff0c\\u4f46\\u53ef\\u72ec\\u7acb\\u751f\\u6d3b"],   \* 2分 | 轻度残疾 | 不能完成所有病前活动，但可独立生活
        [stage |-> "3\\u5206", criteria |-> "\\u4e2d\\u5ea6\\u6b8b\\u75be",
         description |-> "\\u9700\\u8981\\u4e00\\u4e9b\\u5e2e\\u52a9\\uff0c\\u4f46\\u65e0\\u9700\\u4ed6\\u4eba\\u6301\\u7eed\\u7167\\u62a4"],   \* 3分 | 中度残疾 | 需要一些帮助，但无需他人持续照护
        [stage |-> "4\\u5206", criteria |-> "\\u4e2d\\u91cd\\u5ea6\\u6b8b\\u75be",
         description |-> "\\u9700\\u8981\\u6301\\u7eed\\u7167\\u62a4\\uff0c\\u4e0d\\u80fd\\u72ec\\u7acb\\u884c\\u8d70\\u6216\\u751f\\u6d3b"],   \* 4分 | 中重度残疾 | 需要持续照护，不能独立行走或生活
        [stage |-> "5\\u5206", criteria |-> "\\u91cd\\u5ea6\\u6b8b\\u75be",
         description |-> "\\u5367\\u5e8a\\u4e0d\\u8d77\\uff0c\\u5927\\u5c0f\\u4fbf\\u5931\\u7981\\uff0c\\u9700\\u8981\\u6301\\u7eed\\u62a4\\u7406"],   \* 5分 | 重度残疾 | 卧床不起，大小便失禁，需要持续护理
        [stage |-> "6\\u5206", criteria |-> "\\u6b7b\\u4ea1",
         description |-> "\\u6b7b\\u4ea1"]   \* 6分 | 死亡 | 死亡
      >> ]

\* the loops of generate_d6_disease_staging in program order
blocks == <<block01, block02, block03, block04, block05, block06, block07, block08, block09, block10, block11, block12, block13, block14, block15, block16, block17>>

(***************************************************************************)
(* generate_d8_department_mapping: literals                                *)
(***************************************************************************)
\* src/generate_d8_department_mapping.py:4-293  the literal department list
departments ==
    << [departmentCode |-> "ICU",
       departmentName |-> "\\u91cd\\u75c7\\u533b\\u5b66\\u79d1",   \* 重症医学科
       aliases |-> <<"ICU", "\\u91cd\\u75c7\\u76d1\\u62a4\\u5ba4", "MICU", "SICU">>,
       category |-> "\\u6025\\u5371\\u91cd\\u75c7",
       wards |-> <<"ICU-A\\u533a", "ICU-B\\u533a">>,
       bedCount |-> 30,
       specialRequirements |-> <<"24\\u5c0f\\u65f6\\u76d1\\u62a4", "\\u547c\\u5438\\u673a\\u7ba1\\u7406", "CRRT">>],
       [departmentCode |-> "ER",
       departmentName |-> "\\u6025\\u8bca\\u79d1",   \* 急诊科
       aliases |-> <<"\\u6025\\u8bca", "\\u6025\\u8bca\\u5ba4">>,
       category |-> "\\u6025\\u5371\\u91cd\\u75c7",
       wards |-> <<"\\u6025\\u8bca\\u62a2\\u6551\\u5ba4", "\\u6025\\u8bca\\u89c2\\u5bdf\\u5ba4">>,
       bedCount |-> 20,
       specialRequirements |-> <<"\\u5feb\\u901f\\u8bca\\u65ad", "\\u7d27\\u6025\\u5904\\u7406", "\\u591a\\u5b66\\u79d1\\u534f\\u4f5c">>],
       [departmentCode |-> "CARD",
       departmentName |-> "\\u5fc3\\u8840\\u7ba1\\u5185\\u79d1",   \* 心血管内科
       aliases |-> <<"\\u5fc3\\u5185\\u79d1", "\\u5fc3\\u5185">>,
       category |-> "\\u5185\\u79d1\\u7cfb\\u7edf",
       wards |-> <<"\\u5fc3\\u5185\\u4e00\\u75c5\\u533a", "\\u5fc3\\u5185\\u4e8c\\u75c5\\u533a">>,
       bedCount |-> 60,
       specialRequirements |-> <<"\\u5fc3\\u7535\\u76d1\\u62a4", "\\u4ecb\\u5165\\u6cbb\\u7597", "\\u5fc3\\u810f\\u5eb7\\u590d">>],
       [departmentCode |-> "RESP",
       departmentName |-> "\\u547c\\u5438\\u5185\\u79d1",   \* 呼吸内科
       aliases |-> <<"\\u547c\\u5438\\u79d1", "\\u547c\\u5438">>,
       category |-> "\\u5185\\u79d1\\u7cfb\\u7edf",
       wards |-> <<"\\u547c\\u5438\\u4e00\\u75c5\\u533a", "\\u547c\\u5438\\u4e8c\\u75c5\\u533a">>,
       bedCount |-> 55,
       specialRequirements |-> <<"\\u547c\\u5438\\u673a\\u652f\\u6301", "\\u652f\\u6c14\\u7ba1\\u955c", "\\u80ba\\u529f\\u80fd\\u68c0\\u67e5">>],
       [departmentCode |-> "GASTRO",
       departmentName |-> "\\u6d88\\u5316\\u5185\\u79d1",   \* 消化内科
       aliases |-> <<"\\u6d88\\u5316\\u79d1", "\\u6d88\\u5316">>,
       category |-> "\\u5185\\u79d1\\u7cfb\\u7edf",
       wards |-> <<"\\u6d88\\u5316\\u4e00\\u75c5\\u533a", "\\u6d88\\u5316\\u4e8c\\u75c5\\u533a">>,
       bedCount |-> 50,
       specialRequirements |-> <<"\\u80c3\\u80a0\\u955c", "\\u809d\\u7a7f\\u523a", "\\u5185\\u955c\\u4e0b\\u6cbb\\u7597">>],
       [departmentCode |-> "NEPHRO",
       departmentName |-> "\\u80be\\u810f\\u5185\\u79d1",   \* 肾脏内科
       aliases |-> <<"\\u80be\\u5185\\u79d1", "\\u80be\\u5185">>,
       category |-> "\\u5185\\u79d1\\u7cfb\\u7edf",
       wards |-> <<"\\u80be\\u5185\\u75c5\\u533a">>,
       bedCount |-> 40,
       specialRequirements |-> <<"\\u8840\\u6db2\\u900f\\u6790", "\\u8179\\u819c\\u900f\\u6790", "\\u80be\\u6d3b\\u68c0">>],
       [departmentCode |-> "ENDO",
       departmentName |-> "\\u5185\\u5206\\u6ccc\\u79d1",   \* 内分泌科
       aliases |-> <<"\\u5185\\u5206\\u6ccc">>,
       category |-> "\\u5185\\u79d1\\u7cfb\\u7edf",
       wards |-> <<"\\u5185\\u5206\\u6ccc\\u75c5\\u533a">>,
       bedCount |-> 45,
       specialRequirements |-> <<"\\u8840\\u7cd6\\u7ba1\\u7406", "\\u7532\\u72b6\\u817a\\u529f\\u80fd\\u8bc4\\u4f30", "\\u9aa8\\u5bc6\\u5ea6\\u68c0\\u67e5">>],
       [departmentCode |-> "HEMA",
       departmentName |-> "\\u8840\\u6db2\\u5185\\u79d1",   \* 血液内科
       aliases |-> <<"\\u8840\\u6db2\\u79d1">>,
       category |-> "\\u5185\\u79d1\\u7cfb\\u7edf",
       wards |-> <<"\\u8840\\u6db2\\u75c5\\u533a">>,
       bedCount |-> 35,
       specialRequirements |-> <<"\\u9aa8\\u9ad3\\u7a7f\\u523a", "\\u5316\\u7597", "\\u9020\\u8840\\u5e72\\u7ec6\\u80de\\u79fb\\u690d">>],
       [departmentCode |-> "RHEUM",
       departmentName |-> "\\u98ce\\u6e7f\\u514d\\u75ab\\u79d1",   \* 风湿免疫科
       aliases |-> <<"\\u98ce\\u6e7f\\u79d1">>,
       category |-> "\\u5185\\u79d1\\u7cfb\\u7edf",
       wards |-> <<"\\u98ce\\u6e7f\\u514d\\u75ab\\u75c5\\u533a">>,
       bedCount |-> 30,
       specialRequirements |-> <<"\\u514d\\u75ab\\u6291\\u5236\\u5242\\u6cbb\\u7597", "\\u5173\\u8282\\u8154\\u7a7f\\u523a">>],
       [departmentCode |-> "NEURO",
       departmentName |-> "\\u795e\\u7ecf\\u5185\\u79d1",   \* 神经内科
       aliases |-> <<"\\u795e\\u5185\\u79d1", "\\u795e\\u5185">>,
       category |-> "\\u5185\\u79d1\\u7cfb\\u7edf",
       wards |-> <<"\\u795e\\u5185\\u4e00\\u75c5\\u533a", "\\u795e\\u5185\\u4e8c\\u75c5\\u533a">>,
       bedCount |-> 60,
       specialRequirements |-> <<"\\u8111\\u7535\\u56fe", "\\u808c\\u7535\\u56fe", "\\u795e\\u7ecf\\u5eb7\\u590d">>],
       [departmentCode |-> "INFECT",
       departmentName |-> "\\u611f\\u67d3\\u79d1",   \* 感染科
       aliases |-> <<"\\u4f20\\u67d3\\u79d1">>,
       category |-> "\\u5185\\u79d1\\u7cfb\\u7edf",
       wards |-> <<"\\u611f\\u67d3\\u75c5\\u533a">>,
       bedCount |-> 30,
       specialRequirements |-> <<"\\u9694\\u79bb\\u7ba1\\u7406", "\\u6297\\u611f\\u67d3\\u6cbb\\u7597">>],
       [departmentCode |-> "GSURG",
       departmentName |-> "\\u666e\\u901a\\u5916\\u79d1",   \* 普通外科
       aliases |-> <<"\\u666e\\u5916\\u79d1", "\\u666e\\u5916">>,
       category |-> "\\u5916\\u79d1\\u7cfb\\u7edf",
       wards |-> <<"\\u666e\\u5916\\u4e00\\u75c5\\u533a", "\\u666e\\u5916\\u4e8c\\u75c5\\u533a">>,
       bedCount |-> 70,
       specialRequirements |-> <<"\\u8179\\u8154\\u955c\\u624b\\u672f", "\\u80c3\\u80a0\\u9053\\u624b\\u672f", "\\u7532\\u72b6\\u817a\\u624b\\u672f">>],
       [departmentCode |-> "ORTHO",
       departmentName |-> "\\u9aa8\\u79d1",   \* 骨科
       aliases |-> <<"\\u9aa8\\u5916\\u79d1">>,
       category |-> "\\u5916\\u79d1\\u7cfb\\u7edf",
       wards |-> <<"\\u9aa8\\u79d1\\u4e00\\u75c5\\u533a", "\\u9aa8\\u79d1\\u4e8c\\u75c5\\u533a">>,
       bedCount |-> 80,
       specialRequirements |-> <<"\\u5173\\u8282\\u7f6e\\u6362", "\\u810a\\u67f1\\u624b\\u672f", "\\u521b\\u4f24\\u4fee\\u590d">>],
       [departmentCode |-> "CTS",
       departmentName |-> "\\u5fc3\\u80f8\\u5916\\u79d1",   \* 心胸外科
       aliases |-> <<"\\u80f8\\u5916\\u79d1", "\\u5fc3\\u5916\\u79d1">>,
       category |-> "\\u5916\\u79d1\\u7cfb\\u7edf",
       wards |-> <<"\\u5fc3\\u80f8\\u5916\\u79d1\\u75c5\\u533a">>,
       bedCount |-> 40,
       specialRequirements |-> <<"\\u5fc3\\u810f\\u642d\\u6865", "\\u80ba\\u53f6\\u5207\\u9664", "\\u98df\\u7ba1\\u764c\\u624b\\u672f">>],
       [departmentCode |-> "URO",
       departmentName |-> "\\u6ccc\\u5c3f\\u5916\\u79d1",   \* 泌尿外科
       aliases |-> <<"\\u6ccc\\u5916">>,
       category |-> "\\u5916\\u79d1\\u7cfb\\u7edf",
       wards |-> <<"\\u6ccc\\u5c3f\\u5916\\u79d1\\u75c5\\u533a">>,
       bedCount |-> 45,
       specialRequirements |-> <<"\\u80be\\u79fb\\u690d", "\\u8180\\u80f1\\u955c", "\\u524d\\u5217\\u817a\\u624b\\u672f">>],
       [departmentCode |-> "NSURG",
       departmentName |-> "\\u795e\\u7ecf\\u5916\\u79d1",   \* 神经外科
       aliases |-> <<"\\u795e\\u5916\\u79d1", "\\u795e\\u5916">>,
       category |-> "\\u5916\\u79d1\\u7cfb\\u7edf",
       wards |-> <<"\\u795e\\u7ecf\\u5916\\u79d1\\u75c5\\u533a">>,
       bedCount |-> 50,
       specialRequirements |-> <<"\\u8111\\u80bf\\u7624\\u5207\\u9664", "\\u8111\\u8840\\u7ba1\\u4ecb\\u5165", "\\u810a\\u9ad3\\u624b\\u672f">>],
       [departmentCode |-> "PLAST",
       departmentName |-> "\\u70e7\\u4f24\\u6574\\u5f62\\u79d1",   \* 烧伤整形科
       aliases |-> <<"\\u6574\\u5f62\\u5916\\u79d1">>,
       category |-> "\\u5916\\u79d1\\u7cfb\\u7edf",
       wards |-> <<"\\u70e7\\u4f24\\u75c5\\u533a", "\\u6574\\u5f62\\u75c5\\u533a">>,
       bedCount |-> 30,
       specialRequirements |-> <<"\\u70e7\\u4f24\\u6cbb\\u7597", "\\u76ae\\u80a4\\u79fb\\u690d", "\\u7f8e\\u5bb9\\u6574\\u5f62">>],
       [departmentCode |-> "OBGYN",
       departmentName |-> "\\u5987\\u4ea7\\u79d1",   \* 妇产科
       aliases |-> <<"\\u5987\\u79d1", "\\u4ea7\\u79d1">>,
       category |-> "\\u5987\\u4ea7\\u79d1",
       wards |-> <<"\\u5987\\u79d1\\u75c5\\u533a", "\\u4ea7\\u79d1\\u75c5\\u533a">>,
       bedCount |-> 60,
       specialRequirements |-> <<"\\u5206\\u5a29", "\\u5987\\u79d1\\u80bf\\u7624\\u624b\\u672f", "\\u4ea7\\u524d\\u68c0\\u67e5">>],
       [departmentCode |-> "PED",
       departmentName |-> "\\u513f\\u79d1",   \* 儿科
       aliases |-> <<"\\u513f\\u5185\\u79d1", "\\u513f\\u5916\\u79d1">>,
       category |-> "\\u513f\\u79d1",
       wards |-> <<"\\u513f\\u79d1\\u75c5\\u533a", "\\u65b0\\u751f\\u513f\\u75c5\\u533a">>,
       bedCount |-> 50,
       specialRequirements |-> <<"\\u513f\\u7ae5\\u5e38\\u89c1\\u75c5", "\\u65b0\\u751f\\u513f\\u76d1\\u62a4", "\\u513f\\u7ae5\\u4fdd\\u5065">>],
       [departmentCode |-> "OPHTH",
       departmentName |-> "\\u773c\\u79d1",   \* 眼科
       aliases |-> <<"\\u773c\\u8033\\u9f3b\\u5589\\u79d1">>,
       category |-> "\\u4e94\\u5b98\\u79d1",
       wards |-> <<"\\u773c\\u79d1\\u75c5\\u533a">>,
       bedCount |-> 25,
       specialRequirements |-> <<"\\u767d\\u5185\\u969c\\u624b\\u672f", "\\u773c\\u5e95\\u68c0\\u67e5", "\\u6fc0\\u5149\\u6cbb\\u7597">>],
       [departmentCode |-> "ENT",
       departmentName |-> "\\u8033\\u9f3b\\u54bd\\u5589\\u79d1",   \* 耳鼻咽喉科
       aliases |-> <<"\\u8033\\u9f3b\\u5589\\u79d1">>,
       category |-> "\\u4e94\\u5b98\\u79d1",
       wards |-> <<"\\u8033\\u9f3b\\u5589\\u79d1\\u75c5\\u533a">>,
       bedCount |-> 25,
       specialRequirements |-> <<"\\u542c\\u529b\\u68c0\\u67e5", "\\u9f3b\\u5185\\u955c\\u624b\\u672f", "\\u6241\\u6843\\u4f53\\u5207\\u9664">>],
       [departmentCode |-> "ORAL",
       departmentName |-> "\\u53e3\\u8154\\u79d1",   \* 口腔科
       aliases |-> <<"\\u53e3\\u8154\\u988c\\u9762\\u5916\\u79d1">>,
       category |-> "\\u4e94\\u5b98\\u79d1",
       wards |-> <<"\\u53e3\\u8154\\u79d1\\u75c5\\u533a">>,
       bedCount |-> 20,
       specialRequirements |-> <<"\\u7259\\u9f7f\\u79cd\\u690d", "\\u988c\\u9762\\u90e8\\u624b\\u672f", "\\u53e3\\u8154\\u4fee\\u590d">>],
       [departmentCode |-> "DERM",
       departmentName |-> "\\u76ae\\u80a4\\u79d1",   \* 皮肤科
       aliases |-> <<"\\u76ae\\u80a4\\u6027\\u75c5\\u79d1">>,
       category |-> "\\u5176\\u4ed6",
       wards |-> <<"\\u76ae\\u80a4\\u79d1\\u75c5\\u533a">>,
       bedCount |-> 15,
       specialRequirements |-> <<"\\u76ae\\u80a4\\u75c5\\u8bca\\u65ad", "\\u6fc0\\u5149\\u6cbb\\u7597", "\\u76ae\\u80a4\\u6d3b\\u68c0">>],
       [departmentCode |-> "TCM",
       departmentName |-> "\\u4e2d\\u533b\\u79d1",   \* 中医科
       aliases |-> <<"\\u4e2d\\u897f\\u533b\\u7ed3\\u5408\\u79d1">>,
       category |-> "\\u5176\\u4ed6",
       wards |-> <<"\\u4e2d\\u533b\\u79d1\\u75c5\\u533a">>,
       bedCount |-> 20,
       specialRequirements |-> <<"\\u4e2d\\u533b\\u8fa8\\u8bc1", "\\u9488\\u7078", "\\u4e2d\\u836f\\u6cbb\\u7597">>],
       [departmentCode |-> "REHAB",
       departmentName |-> "\\u5eb7\\u590d\\u533b\\u5b66\\u79d1",   \* 康复医学科
       aliases |-> <<"\\u5eb7\\u590d\\u79d1">>,
       category |-> "\\u5176\\u4ed6",
       wards |-> <<"\\u5eb7\\u590d\\u75c5\\u533a">>,
       bedCount |-> 30,
       specialRequirements |-> <<"\\u7269\\u7406\\u6cbb\\u7597", "\\u4f5c\\u4e1a\\u6cbb\\u7597", "\\u8a00\\u8bed\\u6cbb\\u7597">>],
       [departmentCode |-> "ONCO",
       departmentName |-> "\\u80bf\\u7624\\u79d1",   \* 肿瘤科
       aliases |-> <<"\\u80bf\\u7624\\u5185\\u79d1", "\\u80bf\\u7624\\u5916\\u79d1">>,
       category |-> "\\u5176\\u4ed6",
       wards |-> <<"\\u80bf\\u7624\\u4e00\\u75c5\\u533a", "\\u80bf\\u7624\\u4e8c\\u75c5\\u533a">>,
       bedCount |-> 50,
       specialRequirements |-> <<"\\u5316\\u7597", "\\u653e\\u7597", "\\u9776\\u5411\\u6cbb\\u7597">>],
       [departmentCode |-> "GERI",
       departmentName |-> "\\u8001\\u5e74\\u533b\\u5b66\\u79d1",   \* 老年医学科
       aliases |-> <<"\\u8001\\u5e74\\u79d1">>,
       category |-> "\\u5176\\u4ed6",
       wards |-> <<"\\u8001\\u5e74\\u75c5\\u533a">>,
       bedCount |-> 30,
       specialRequirements |-> <<"\\u8001\\u5e74\\u7efc\\u5408\\u8bc4\\u4f30", "\\u591a\\u91cd\\u7528\\u836f\\u7ba1\\u7406">>],
       [departmentCode |-> "PSYCH",
       departmentName |-> "\\u7cbe\\u795e\\u533b\\u5b66\\u79d1",   \* 精神医学科
       aliases |-> <<"\\u7cbe\\u795e\\u79d1">>,
       category |-> "\\u5176\\u4ed6",
       wards |-> <<"\\u7cbe\\u795e\\u79d1\\u75c5\\u533a">>,
       bedCount |-> 40,
       specialRequirements |-> <<"\\u5fc3\\u7406\\u6cbb\\u7597", "\\u836f\\u7269\\u6cbb\\u7597", "\\u7535\\u4f11\\u514b\\u6cbb\\u7597">>],
       [departmentCode |-> "ANESTH",
       departmentName |-> "\\u9ebb\\u9189\\u79d1",   \* 麻醉科
       aliases |-> <<"\\u9ebb\\u9189">>,
       category |-> "\\u5176\\u4ed6",
       wards |-> <<"\\u9ebb\\u9189\\u6062\\u590d\\u5ba4">>,
       bedCount |-> 10,
       specialRequirements |-> <<"\\u672f\\u4e2d\\u9ebb\\u9189\\u7ba1\\u7406", "\\u75bc\\u75db\\u7ba1\\u7406">>],
       [departmentCode |-> "PATH",
       departmentName |-> "\\u75c5\\u7406\\u79d1",   \* 病理科
       aliases |-> <<"\\u75c5\\u7406">>,
       category |-> "\\u5176\\u4ed6",
       wards |-> <<>>,
       bedCount |-> 0,
       specialRequirements |-> <<"\\u7ec4\\u7ec7\\u75c5\\u7406\\u8bca\\u65ad", "\\u7ec6\\u80de\\u5b66\\u8bca\\u65ad">>],
       [departmentCode |-> "RADI",
       departmentName |-> "\\u653e\\u5c04\\u79d1",   \* 放射科
       aliases |-> <<"\\u5f71\\u50cf\\u79d1">>,
       category |-> "\\u5176\\u4ed6",
       wards |-> <<>>,
       bedCount |-> 0,
       specialRequirements |-> <<"X\\u7ebf", "CT", "MRI", "\\u8d85\\u58f0">>],
       [departmentCode |-> "LAB",
       departmentName |-> "\\u68c0\\u9a8c\\u79d1",   \* 检验科
       aliases |-> <<"\\u5316\\u9a8c\\u5ba4">>,
       category |-> "\\u5176\\u4ed6",
       wards |-> <<>>,
       bedCount |-> 0,
       specialRequirements |-> <<"\\u8840\\u6db2\\u68c0\\u9a8c", "\\u751f\\u5316\\u68c0\\u9a8c", "\\u514d\\u75ab\\u68c0\\u9a8c">>] >>

(***************************************************************************)
(* generate_d6_disease_staging: the record appended for one stage entry    *)
(***************************************************************************)
\* mutant: the whole stage list of the loop is stored in every record
staging_record_all_stages(block, item, stage_info) ==
    [ disease       |-> item[1],
      icdCode       |-> item[2],
      stagingSystem |-> block.stagingSystem,
      stages        |-> block.stage_infos,
      category      |-> block.category ]

\* lines 32-38 (and the same dict in every other loop): the appended record,
\* whose stages list holds the one stage_info of the current iteration
staging_record(block, item, stage_info) ==
    [ disease       |-> item[1],
      icdCode       |-> item[2],
      stagingSystem |-> block.stagingSystem,
      stages        |-> <<stage_info>>,
      category      |-> block.category ]

\* mutant: the stage loop stops one entry early
next_pos_last_stage_skipped(p) ==
    LET block == blocks[p.b] IN
    IF p.j + 1 < Len(block.stage_infos) THEN [p EXCEPT !.j = p.j + 1]
    ELSE IF p.i < Len(block.items) THEN [p EXCEPT !.i = p.i + 1, !.j = 1]
    ELSE [b |-> p.b + 1, i |-> 1, j |-> 1]

\* mutant: the loops are nested the other way round, stages outside, diseases inside
next_pos_stage_major(p) ==
    LET block == blocks[p.b] IN
    IF p.i < Len(block.items) THEN [p EXCEPT !.i = p.i + 1]
    ELSE IF p.j < Len(block.stage_infos) THEN [p EXCEPT !.j = p.j + 1, !.i = 1]
    ELSE [b |-> p.b + 1, i |-> 1, j |-> 1]

\* mutant: the disease loop is missing, only the first disease of a table is staged
next_pos_first_disease_only(p) ==
    LET block == blocks[p.b] IN
    IF p.j < Len(block.stage_infos) THEN [p EXCEPT !.j = p.j + 1]
    ELSE [b |-> p.b + 1, i |-> 1, j |-> 1]

\* The position of the loops: block b, item i of its disease table (1 for a
\* loop with a literal disease), stage entry j.  The stage loop is the inner
\* loop, the disease loop the outer one (lines 25-26).
next_pos(p) ==
    LET block == blocks[p.b] IN
    IF p.j < Len(block.stage_infos) THEN [p EXCEPT !.j = p.j + 1]
    ELSE IF p.i < Len(block.items) THEN [p EXCEPT !.i = p.i + 1, !.j = 1]
    ELSE [b |-> p.b + 1, i |-> 1, j |-> 1]

first_pos == [b |-> 1, i |-> 1, j |-> 1]

(***************************************************************************)
(* json.dump(obj, f, ensure_ascii=False, indent=2)                         *)
(* json.dump encodes the object into a sequence of chunks of text and      *)
(* writes them to the file one after the other.  A chunk here is one       *)
(* lexeme: punctuation, a line break followed by the indentation of a      *)
(* nesting level, a quoted string, a number.  ensure_ascii=False writes    *)
(* every character of a string as it is, except the quote, the backslash   *)
(* and the control characters, which are escaped.                          *)
(***************************************************************************)
RECURSIVE indent_str(_)
indent_str(level) == IF level = 0 THEN "" ELSE "  " \o indent_str(level - 1)

newline_indent(level) == "\n" \o indent_str(level)

\* the escape of one character inside a JSON string
escape_char(c) ==
    CASE c = "\"" -> "\\\""
      [] c = "\\" -> "\\\\"
      [] c = "\n" -> "\\n"
      [] c = "\t" -> "\\t"
      [] OTHER    -> c

\* the text of characters chars[lo..hi], each escaped
RECURSIVE escaped(_, _, _)
escaped(chars, lo, hi) ==
    IF lo > hi THEN ""
    ELSE IF lo = hi THEN escape_char(chars[lo])
    ELSE LET mid == (lo + hi) \div 2 IN
         escaped(chars, lo, mid) \o escaped(chars, mid + 1, hi)

\* a str given as its characters, quoted
json_chars(chars) == "\"" \o escaped(chars, 1, Len(chars)) \o "\""
\* a str kept whole, quoted; the literals kept whole hold nothing to escape
json_str(s) == "\"" \o s \o "\""
\* int.__repr__
json_int(n) == ToString(n)

\* parts[lo] sep parts[lo+1] sep ... parts[hi], the separator between items only
RECURSIVE join(_, _, _, _)
join(parts, sep, lo, hi) ==
    IF lo > hi THEN <<>>
    ELSE IF lo = hi THEN parts[lo]
    ELSE LET mid == (lo + hi) \div 2 IN
         join(parts, sep, lo, mid) \o sep \o join(parts, sep, mid + 1, hi)

\* a JSON array whose items are already encoded; an empty list is written []
json_list(parts, level) ==
    IF Len(parts) = 0 THEN <<"[]">>
    ELSE <<"[", newline_indent(level + 1)>>
         \o join(parts, <<",", newline_indent(level + 1)>>, 1, Len(parts))
         \o <<newline_indent(level), "]">>

\* the keys of each dict literal in insertion order, with the type of the value
soap_keys ==
    << [key |-> "disease", kind |-> "chars"], [key |-> "icdCode", kind |-> "chars"],
       [key |-> "subjective", kind |-> "chars"], [key |-> "objective", kind |-> "chars"],
       [key |-> "assessment", kind |-> "chars"], [key |-> "plan", kind |-> "chars"] >>

stage_info_keys ==
    << [key |-> "stage", kind |-> "str"], [key |-> "criteria", kind |-> "str"],
       [key |-> "description", kind |-> "str"] >>

staging_keys ==
    << [key |-> "disease", kind |-> "str"], [key |-> "icdCode", kind |-> "str"],
       [key |-> "stagingSystem", kind |-> "str"],
       [key |-> "stages", kind |-> "dicts", keys |-> stage_info_keys],
       [key |-> "category", kind |-> "str"] >>

department_keys ==
    << [key |-> "departmentCode", kind |-> "str"], [key |-> "departmentName", kind |-> "str"],
       [key |-> "aliases", kind |-> "strs"], [key |-> "category", kind |-> "str"],
       [key |-> "wards", kind |-> "strs"], [key |-> "bedCount", kind |-> "int"],
       [key |-> "specialRequirements", kind |-> "strs"] >>

RECURSIVE json_dict(_, _, _)
RECURSIVE json_value(_, _, _)
json_dict(d, keys, level) ==
    <<"{", newline_indent(level + 1)>>
    \o join([k \in 1..Len(keys) |->
                <<json_str(keys[k].key), ": ">>
                \o json_value(d[keys[k].key], keys[k], level + 1)],
            <<",", newline_indent(level + 1)>>, 1, Len(keys))
    \o <<newline_indent(level), "}">>

json_value(value, field, level) ==
    CASE field.kind = "str"   -> <<json_str(value)>>
      [] field.kind = "chars" -> <<json_chars(value)>>
      [] field.kind = "int"   -> <<json_int(value)>>
      [] field.kind = "strs"  ->
            json_list([k \in 1..Len(value) |-> <<json_str(value[k])>>], level)
      [] field.kind = "dicts" ->
            json_list([k \in 1..Len(value) |-> json_dict(value[k], field.keys, level + 1)], level)

\* the chunks json.dump writes for a list of dicts
json_chunks(data, keys) ==
    json_list([k \in 1..Len(data) |-> json_dict(data[k], keys, 1)], 0)

\* the text of chunks[lo..hi] written one after the other
RECURSIVE written(_, _, _)
written(chunks, lo, hi) ==
    IF lo > hi THEN ""
    ELSE IF lo = hi THEN chunks[lo]
    ELSE LET mid == (lo + hi) \div 2 IN
         written(chunks, lo, mid) \o written(chunks, mid + 1, hi)

\* json.dump of a list of dicts: the whole text written to the file
json_dump(data, keys) ==
    LET chunks == json_chunks(data, keys) IN written(chunks, 1, Len(chunks))

(***************************************************************************)
(* The runs                                                                *)
(***************************************************************************)
Generators == {"d2", "d6", "d8"}

\* mutant: the d8 script is pasted from d6 with the output path left as it was
output_path_shared(g) ==
    CASE g = "d2" -> "data/d2_soap_templates.json"
      [] g = "d6" -> "data/d6_disease_staging.json"
      [] g = "d8" -> "data/d6_disease_staging.json"

\* d2 line 23, d6 line 314, d8 line 295
output_path(g) ==
    CASE g = "d2" -> "data/d2_soap_templates.json"
      [] g = "d6" -> "data/d6_disease_staging.json"
      [] g = "d8" -> "data/d8_department_mapping.json"

Paths == {output_path(g) : g \in Generators}

absent == [exists |-> FALSE, text |-> ""]
\* a file some earlier tool or edit left at the path
other_content == [exists |-> TRUE, text |-> "stale text of another tool\n"]

VARIABLES
    pc,              \* per generator: where its run stands
    soap_templates,  \* d2: the list being built
    d2_i,            \* d2: index of the next disease of the for loop
    data_d6,         \* d6: the list `data`
    d6_pos,          \* d6: position of the loops
    data_d8,         \* d8: the list `data`
    fs,              \* path -> the file at that path
    fh,              \* per generator: its file object f is open
    stdout,          \* per generator: the lines printed by its current run
    runs,            \* number of runs started
    first_output,    \* per generator: the file as its first successful run left it
    successes        \* per generator: number of runs that returned normally

vars == <<pc, soap_templates, d2_i, data_d6, d6_pos, data_d8, fs, fh, stdout,
          runs, first_output, successes>>

running(g) == pc[g] \notin {"idle", "done", "failed"}

\* the list a generator hands to json.dump
collected(g) ==
    CASE g = "d2" -> soap_templates
      [] g = "d6" -> data_d6
      [] g = "d8" -> data_d8

keys_of(g) ==
    CASE g = "d2" -> soap_keys
      [] g = "d6" -> staging_keys
      [] g = "d8" -> department_keys

Init ==
    /\ pc = [g \in Generators |-> "idle"]
    /\ soap_templates = <<>>
    /\ d2_i = 1
    /\ data_d6 = <<>>
    /\ d6_pos = first_pos
    /\ data_d8 = <<>>
    /\ fs \in [Paths -> {absent, other_content}]
    /\ fh = [g \in Generators |-> FALSE]
    /\ stdout = [g \in Generators |-> <<>>]
    /\ runs = 0
    /\ first_output = [g \in Generators |-> absent]
    /\ successes = [g \in Generators |-> 0]

\* `python generate_dN_....py`: a fresh process; the scripts are run one at a
\* time, and each run starts with its locals empty
Start(g) ==
    /\ runs < MaxRuns
    /\ \A h \in Generators : ~running(h)
    /\ runs' = runs + 1
    /\ pc' = [pc EXCEPT ![g] = "collect"]
    /\ stdout' = [stdout EXCEPT ![g] = <<>>]
    /\ soap_templates' = IF g = "d2" THEN <<>> ELSE soap_templates
    /\ d2_i' = IF g = "d2" THEN 1 ELSE d2_i
    /\ data_d6' = IF g = "d6" THEN <<>> ELSE data_d6
    /\ d6_pos' = IF g = "d6" THEN first_pos ELSE d6_pos
    /\ data_d8' = IF g = "d8" THEN <<>> ELSE data_d8
    /\ UNCHANGED <<fs, fh, first_output, successes>>

\* the scripts are separate processes with nothing to order them: a script may
\* be started while the others are opening, writing, closing or printing
StartConcurrent(g) ==
    /\ runs < MaxRuns
    /\ ~running(g)
    /\ \A h \in Generators : pc[h] # "collect"
    /\ runs' = runs + 1
    /\ pc' = [pc EXCEPT ![g] = "collect"]
    /\ stdout' = [stdout EXCEPT ![g] = <<>>]
    /\ soap_templates' = IF g = "d2" THEN <<>> ELSE soap_templates
    /\ d2_i' = IF g = "d2" THEN 1 ELSE d2_i
    /\ data_d6' = IF g = "d6" THEN <<>> ELSE data_d6
    /\ d6_pos' = IF g = "d6" THEN first_pos ELSE d6_pos
    /\ data_d8' = IF g = "d8" THEN <<>> ELSE data_d8
    /\ UNCHANGED <<fs, fh, first_output, successes>>

\* mutant: insert(0, template) instead of append(template)
D2Append_at_front ==
    /\ pc["d2"] = "collect"
    /\ d2_i <= Len(diseases)
    /\ soap_templates' = <<template(diseases[d2_i])>> \o soap_templates
    /\ d2_i' = d2_i + 1
    /\ UNCHANGED <<pc, data_d6, d6_pos, data_d8, fs, fh, stdout, runs, first_output, successes>>

\* d2 lines 12-21: one iteration of `for disease in diseases`
D2Append ==
    /\ pc["d2"] = "collect"
    /\ d2_i <= Len(diseases)
    /\ soap_templates' = Append(soap_templates, template(diseases[d2_i]))
    /\ d2_i' = d2_i + 1
    /\ UNCHANGED <<pc, data_d6, d6_pos, data_d8, fs, fh, stdout, runs, first_output, successes>>

\* d2: the for loop is exhausted; line 23
D2Collected ==
    /\ pc["d2"] = "collect"
    /\ d2_i > Len(diseases)
    /\ pc' = [pc EXCEPT !["d2"] = "open"]
    /\ UNCHANGED <<soap_templates, d2_i, data_d6, d6_pos, data_d8, fs, fh, stdout,
                   runs, first_output, successes>>

\* How severe each stage entry is within its loop, read from its criteria and
\* description text: a larger number is a more severe stage.
severity ==
    << <<1, 2, 3, 4>>,        \* TNM I-IV: localized ... distant metastasis
       <<1, 2, 3, 4>>,        \* NYHA I-IV: no limitation ... symptoms at rest
       <<1, 2, 3, 4, 5>>,     \* CKD 1-5: GFR >= 90 ... GFR < 15 or dialysis
       <<1, 2, 3, 4>>,        \* GOLD I-IV: mild ... very severe
       <<1, 2, 3>>,           \* Child-Pugh A-C: 5-6 points ... 10-15 points
       <<1, 2, 3>>,           \* hypertension grade 1-3: mild, moderate, severe
       <<1, 2, 3, 4>>,        \* hypertension risk: low, medium, high, very high
       <<1, 2, 3>>,           \* retinopathy: early, progressing, late
       <<1, 2, 3, 4, 5>>,     \* diabetic nephropathy I-V: hyperfiltration ... end stage
       <<1, 2, 3>>,           \* neuropathy: no symptoms, symptoms, complications
       <<1, 2, 3, 4>>,        \* burns: epidermis ... full thickness
       <<1, 2, 3>>,           \* AO A-C: simple, wedge, complex
       <<1, 2, 3, 4, 5>>,     \* ECOG 0-4: fully active ... bedridden
       <<3, 2, 1>>,           \* GCS 3-8 severe (coma), 9-12 moderate, 13-15 mild
       <<1, 2, 3, 4, 5, 6>>,  \* ASA I-VI: healthy ... brain dead
       <<6, 5, 4, 3, 2, 1>>,  \* Forrest Ia spurting bleeding (high risk) ... III clean base (low risk)
       <<1, 2, 3, 4, 5, 6, 7>> >>  \* mRS 0-6: no symptoms ... death

\* d6: one data.append(...) of whichever loop is running
D6Append ==
    /\ pc["d6"] = "collect"
    /\ d6_pos.b <= Len(blocks)
    /\ LET block == blocks[d6_pos.b] IN
       data_d6' = Append(data_d6,
                         staging_record(block, block.items[d6_pos.i],
                                        block.stage_infos[d6_pos.j]))
    /\ d6_pos' = next_pos(d6_pos)
    /\ UNCHANGED <<pc, soap_templates, d2_i, data_d8, fs, fh, stdout, runs, first_output, successes>>

\* d6: the last loop is exhausted; line 314
D6Collected ==
    /\ pc["d6"] = "collect"
    /\ d6_pos.b > Len(blocks)
    /\ pc' = [pc EXCEPT !["d6"] = "open"]
    /\ UNCHANGED <<soap_templates, d2_i, data_d6, d6_pos, data_d8, fs, fh, stdout,
                   runs, first_output, successes>>

\* mutant: the two wards of the first entry are written in the other order
D8Collect_wards_swapped ==
    /\ pc["d8"] = "collect"
    /\ data_d8' = [departments EXCEPT ![1].wards = <<@[2], @[1]>>]
    /\ pc' = [pc EXCEPT !["d8"] = "open"]
    /\ UNCHANGED <<soap_templates, d2_i, data_d6, d6_pos, fs, fh, stdout, runs,
                   first_output, successes>>

\* mutant: the last entry, a department without beds, is given a ward
D8Collect_ward_without_beds ==
    /\ pc["d8"] = "collect"
    /\ data_d8' = [departments EXCEPT ![Len(departments)].wards = <<"LAB-1">>]
    /\ pc' = [pc EXCEPT !["d8"] = "open"]
    /\ UNCHANGED <<soap_templates, d2_i, data_d6, d6_pos, fs, fh, stdout, runs,
                   first_output, successes>>

\* mutant: the second entry was pasted from the first and kept its code
D8Collect_pasted_code ==
    /\ pc["d8"] = "collect"
    /\ data_d8' = [departments EXCEPT ![2].departmentCode = departments[1].departmentCode]
    /\ pc' = [pc EXCEPT !["d8"] = "open"]
    /\ UNCHANGED <<soap_templates, d2_i, data_d6, d6_pos, fs, fh, stdout, runs,
                   first_output, successes>>

\* d8 lines 4-293: data = [ ... ], the whole literal at once; line 295
D8Collect ==
    /\ pc["d8"] = "collect"
    /\ data_d8' = departments
    /\ pc' = [pc EXCEPT !["d8"] = "open"]
    /\ UNCHANGED <<soap_templates, d2_i, data_d6, d6_pos, fs, fh, stdout, runs,
                   first_output, successes>>

\* mutant: mode "a" instead of "w": the file is created but never truncated
Open_append(g) ==
    /\ pc[g] = "open"
    /\ fs' = [fs EXCEPT ![output_path(g)].exists = TRUE]
    /\ fh' = [fh EXCEPT ![g] = TRUE]
    /\ pc' = [pc EXCEPT ![g] = "dump"]
    /\ UNCHANGED <<soap_templates, d2_i, data_d6, d6_pos, data_d8, stdout, runs,
                   first_output, successes>>

\* open(output_path, "w", encoding="utf-8"): creates the file or truncates it
Open(g) ==
    /\ pc[g] = "open"
    /\ fs' = [fs EXCEPT ![output_path(g)] = [exists |-> TRUE, text |-> ""]]
    /\ fh' = [fh EXCEPT ![g] = TRUE]
    /\ pc' = [pc EXCEPT ![g] = "dump"]
    /\ UNCHANGED <<soap_templates, d2_i, data_d6, d6_pos, data_d8, stdout, runs,
                   first_output, successes>>

\* open raises OSError (data/ missing or not writable); nothing catches it
OpenFault(g) ==
    /\ pc[g] = "open"
    /\ pc' = [pc EXCEPT ![g] = "failed"]
    /\ UNCHANGED <<soap_templates, d2_i, data_d6, d6_pos, data_d8, fs, fh, stdout,
                   runs, first_output, successes>>

\* json.dump(..., f, ensure_ascii=False, indent=2): written at the file position
Dump(g) ==
    /\ pc[g] = "dump"
    /\ fs' = [fs EXCEPT ![output_path(g)].text = @ \o json_dump(collected(g), keys_of(g))]
    /\ pc' = [pc EXCEPT ![g] = "close"]
    /\ UNCHANGED <<soap_templates, d2_i, data_d6, d6_pos, data_d8, fh, stdout, runs,
                   first_output, successes>>

\* mutant: an except clause removes the partial file before the fault goes on
DumpFault_cleanup(g) ==
    /\ pc[g] = "dump"
    /\ fs' = [fs EXCEPT ![output_path(g)] = absent]
    /\ fh' = [fh EXCEPT ![g] = FALSE]
    /\ pc' = [pc EXCEPT ![g] = "failed"]
    /\ UNCHANGED <<soap_templates, d2_i, data_d6, d6_pos, data_d8, stdout, runs,
                   first_output, successes>>

\* a write raises OSError part way (device full): what was written stays, the
\* with statement closes f, nothing catches the exception
DumpFault(g) ==
    /\ pc[g] = "dump"
    /\ LET chunks == json_chunks(collected(g), keys_of(g)) IN
       \E n \in {0, Len(chunks) \div 2} :
          fs' = [fs EXCEPT ![output_path(g)].text = @ \o written(chunks, 1, n)]
    /\ fh' = [fh EXCEPT ![g] = FALSE]
    /\ pc' = [pc EXCEPT ![g] = "failed"]
    /\ UNCHANGED <<soap_templates, d2_i, data_d6, d6_pos, data_d8, stdout, runs,
                   first_output, successes>>

\* the end of the with block closes f
Close(g) ==
    /\ pc[g] = "close"
    /\ fh' = [fh EXCEPT ![g] = FALSE]
    /\ pc' = [pc EXCEPT ![g] = "report"]
    /\ UNCHANGED <<soap_templates, d2_i, data_d6, d6_pos, data_d8, fs, stdout, runs,
                   first_output, successes>>

\* d2 line 27, d6 line 317, d8 line 298: the text of the first print
summary(g) ==
    CASE g = "d2" -> "Generated " \o ToString(Len(soap_templates)) \o " SOAP templates."
      [] g = "d6" -> "Generated " \o ToString(Len(data_d6))
                     \o " disease staging entries. Output saved to " \o output_path(g)
      [] g = "d8" -> "Generated " \o ToString(Len(data_d8))
                     \o " department mapping entries. Output saved to " \o output_path(g)

\* the run returns: remember what the first successful run left in the file
finished(g) ==
    /\ first_output' = IF successes[g] = 0
                       THEN [first_output EXCEPT ![g] = fs[output_path(g)]]
                       ELSE first_output
    /\ successes' = [successes EXCEPT ![g] = @ + 1]

\* mutant: the print is indented into the with block, f is still open
Report_inside_with(g) ==
    /\ pc[g] = "close"
    /\ stdout' = [stdout EXCEPT ![g] = Append(@, summary(g))]
    /\ IF g = "d2"
       THEN pc' = [pc EXCEPT ![g] = "report2"] /\ UNCHANGED <<first_output, successes>>
       ELSE pc' = [pc EXCEPT ![g] = "done"] /\ finished(g)
    /\ UNCHANGED <<soap_templates, d2_i, data_d6, d6_pos, data_d8, fs, fh, runs>>

\* the first print; d6 and d8 return after it
Report(g) ==
    /\ pc[g] = "report"
    /\ stdout' = [stdout EXCEPT ![g] = Append(@, summary(g))]
    /\ IF g = "d2"
       THEN pc' = [pc EXCEPT ![g] = "report2"] /\ UNCHANGED <<first_output, successes>>
       ELSE pc' = [pc EXCEPT ![g] = "done"] /\ finished(g)
    /\ UNCHANGED <<soap_templates, d2_i, data_d6, d6_pos, data_d8, fs, fh, runs>>

\* d2 line 28: the second print, then the run returns
D2Report2 ==
    /\ pc["d2"] = "report2"
    /\ stdout' = [stdout EXCEPT !["d2"] = Append(@, "Output saved to " \o output_path("d2"))]
    /\ pc' = [pc EXCEPT !["d2"] = "done"]
    /\ finished("d2")
    /\ UNCHANGED <<soap_templates, d2_i, data_d6, d6_pos, data_d8, fs, fh, runs>>

Next ==
    \/ \E g \in Generators : Start(g)
    \/ D2Append
    \/ D2Collected
    \/ D6Append
    \/ D6Collected
    \/ D8Collect
    \/ \E g \in Generators : Open(g)
    \/ \E g \in Generators : OpenFault(g)
    \/ \E g \in Generators : Dump(g)
    \/ \E g \in Generators : DumpFault(g)
    \/ \E g \in Generators : Close(g)
    \/ \E g \in Generators : Report(g)
    \/ D2Report2

Spec == Init /\ [][Next]_vars

\* The runs of the three scripts interleaved step by step.  The loops that
\* build the lists work on the memory of their own process, so the runs are
\* interleaved around the steps other processes can see: every order of the
\* opens, writes, closes and prints of the three scripts is a behaviour, and so
\* is every step of one script's loops between the file steps of the others.
\* A write goes through here; the write that raises is a step of Next.
NextInterleaved ==
    \/ \E g \in Generators : StartConcurrent(g)
    \/ D2Append
    \/ D2Collected
    \/ D6Append
    \/ D6Collected
    \/ D8Collect
    \/ \E g \in Generators : Open(g)
    \/ \E g \in Generators : OpenFault(g)
    \/ \E g \in Generators : Dump(g)
    \/ \E g \in Generators : Close(g)
    \/ \E g \in Generators : Report(g)
    \/ D2Report2

\* every path holds a file when the first script is started, so that a file a
\* run leaves alone is a file with content
InitInterleaved ==
    /\ Init
    /\ fs = [p \in Paths |-> other_content]

SpecInterleaved == InitInterleaved /\ [][NextInterleaved]_vars


(***************************************************************************)
(* Properties                                                              *)
(***************************************************************************)
\* the number of (disease, stage entry) pairs of the first k loops; a loop
\* with a literal disease counts as one disease
RECURSIVE pair_count(_)
pair_count(k) ==
    IF k = 0 THEN 0
    ELSE pair_count(k - 1)
         + (IF blocks[k].nested THEN Len(blocks[k].items) ELSE 1)
           * Len(blocks[k].stage_infos)

table_count(g) ==
    CASE g = "d2" -> Len(diseases)
      [] g = "d6" -> pair_count(Len(blocks))
      [] g = "d8" -> Len(departments)

\* C1: when a generator has returned, the list it dumped to its output file
\* holds exactly as many records as its literal tables define
\* (entity, variant) pairs: d2 the length of the disease list, d6 the sum over
\* the loops of diseases x stage entries, d8 the number of department literals.
C1_RecordCount ==
    \A g \in Generators :
       pc[g] = "done" =>
          Len(collected(g)) = table_count(g)

C1_Witness ==
    /\ pc["d6"] = "done" /\ Len(data_d6) = 191
    /\ pc["d2"] = "done" /\ Len(soap_templates) = 30

\* C2: whatever the output file held before (nothing, other content, the
\* generator's own earlier output, a partial earlier output), the step on which
\* a run returns leaves in the file exactly the serialization of the list of
\* that run, and that is the content the first successful run left.
C2_IdempotentReplace ==
    [][\A g \in Generators :
          (pc[g] # "done" /\ pc'[g] = "done") =>
             /\ fs'[output_path(g)] =
                   [exists |-> TRUE, text |-> json_dump(collected(g), keys_of(g))]
             /\ fs'[output_path(g)] = first_output'[g]]_vars

C2_Witness ==
    \E g \in Generators :
       /\ pc[g] = "done" /\ successes[g] = 2
       /\ fs[output_path(g)] = first_output[g]

\* C3: no two records of the department list share a departmentCode.
C3_UniqueDepartmentCode ==
    \A i, j \in 1..Len(data_d8) :
       i # j => data_d8[i].departmentCode # data_d8[j].departmentCode

C3_Witness ==
    pc["d8"] = "done" /\ Len(data_d8) = 32 /\ fs[output_path("d8")].exists

\* C4: at every point of the build and afterwards, every record of the staging
\* list has a stages list of length exactly 1.
C4_OneStagePerRecord ==
    \A k \in 1..Len(data_d6) : Len(data_d6[k].stages) = 1

C4_Witness ==
    pc["d6"] = "collect" /\ d6_pos.b = Len(blocks) /\ d6_pos.j = 3


\* json.dump has written the list of generator g
dumped(g) == pc[g] \in {"close", "report", "report2", "done"}

\* the text sub occurs in the text s
contains(s, sub) ==
    \E k \in 0..(Len(s) - Len(sub)) : SubSeq(s, k + 1, k + Len(sub)) = sub

hypertension == <<"\\u9ad8", "\\u8840", "\\u538b">>   \* 高血压
\* 高血压相关主诉
hypertension_complaint ==
    <<"\\u9ad8", "\\u8840", "\\u538b", "\\u76f8", "\\u5173", "\\u4e3b", "\\u8bc9">>

\* C5 as stated: the record of 高血压 has icdCode "ICD-高2" and a subjective
\* text containing 高血压相关主诉.
C5_AsStated ==
    dumped("d2") =>
       /\ \E k \in 1..Len(soap_templates) : soap_templates[k].disease = hypertension
       /\ \A k \in 1..Len(soap_templates) :
             soap_templates[k].disease = hypertension =>
                /\ soap_templates[k].icdCode = <<"I", "C", "D", "-", "\\u9ad8", "2">>
                /\ contains(soap_templates[k].subjective, hypertension_complaint)

\* C5 amended: 高血压 has three characters, so its record has icdCode "ICD-高3":
\* "ICD-", the first character, the character length of the name; its
\* subjective text contains 高血压相关主诉.
C5_HypertensionRecord ==
    dumped("d2") =>
       /\ \E k \in 1..Len(soap_templates) : soap_templates[k].disease = hypertension
       /\ \A k \in 1..Len(soap_templates) :
             soap_templates[k].disease = hypertension =>
                /\ Len(soap_templates[k].disease) = 3
                /\ soap_templates[k].icdCode = <<"I", "C", "D", "-", "\\u9ad8", "3">>
                /\ contains(soap_templates[k].subjective, hypertension_complaint)

C5_Witness ==
    pc["d2"] = "done" /\ soap_templates[1].disease = hypertension

heart_failure == "\\u5fc3\\u529b\\u8870\\u7aed"   \* 心力衰竭

\* the records of a list with a given disease and staging system, in list order
records_of(data, disease, system) ==
    SelectSeq(data, LAMBDA r : r.disease = disease /\ r.stagingSystem = system)

\* C6: the dumped staging list holds exactly 4 records of 心力衰竭 under NYHA,
\* with stage labels I级, II级, III级, IV级 in this order and icdCode I50 each.
C6_HeartFailureNYHA ==
    dumped("d6") =>
       LET sel == records_of(data_d6, heart_failure, "NYHA") IN
       /\ Len(sel) = 4
       /\ [k \in 1..Len(sel) |-> sel[k].stages[1].stage]
             = <<"I\\u7ea7", "II\\u7ea7", "III\\u7ea7", "IV\\u7ea7">>
       /\ \A k \in 1..Len(sel) : sel[k].icdCode = "I50"

C6_Witness ==
    pc["d6"] = "done" /\ Len(records_of(data_d6, heart_failure, "NYHA")) = 4

\* C7: the dumped department list has a record with departmentCode ICU, and
\* such a record has bedCount 30 and wards ICU-A区, ICU-B区 in this order.
C7_ICU ==
    dumped("d8") =>
       /\ \E k \in 1..Len(data_d8) : data_d8[k].departmentCode = "ICU"
       /\ \A k \in 1..Len(data_d8) :
             data_d8[k].departmentCode = "ICU" =>
                /\ data_d8[k].bedCount = 30
                /\ data_d8[k].wards = <<"ICU-A\\u533a", "ICU-B\\u533a">>

C7_Witness ==
    pc["d8"] = "done" /\ data_d8[1].departmentCode = "ICU"

\* C8: the i-th SOAP record is the record of the i-th name of the disease
\* list, at every point of the build; the dumped list has one record per name;
\* no two records have the same disease.
C8_OneRecordPerDisease ==
    /\ Len(soap_templates) <= Len(diseases)
    /\ \A k \in 1..Len(soap_templates) : soap_templates[k].disease = diseases[k]
    /\ dumped("d2") => Len(soap_templates) = Len(diseases)
    /\ \A i, j \in 1..Len(soap_templates) :
          i # j => soap_templates[i].disease # soap_templates[j].disease

C8_Witness ==
    pc["d2"] = "done" /\ Len(soap_templates) = 30 /\ fs[output_path("d2")].exists


\* record r was appended by loop b: its staging system, and a disease of its table
in_block(r, b) ==
    /\ r.stagingSystem = blocks[b].stagingSystem
    /\ \E i \in 1..Len(blocks[b].items) : blocks[b].items[i][1] = r.disease

block_of(r) == CHOOSE b \in 1..Len(blocks) : in_block(r, b)

\* the place of the disease of r in the disease table of loop b
item_index(r, b) ==
    CHOOSE i \in 1..Len(blocks[b].items) : blocks[b].items[i][1] = r.disease

\* how severe the stage of record r is among the stages of its loop
severity_of(r) ==
    LET b == block_of(r)
        j == CHOOSE j \in 1..Len(blocks[b].stage_infos) :
                blocks[b].stage_infos[j].stage = r.stages[1].stage
    IN severity[b][j]

same_pair(r, s) == r.disease = s.disease /\ r.stagingSystem = s.stagingSystem

\* the records of every (disease, stagingSystem) pair are contiguous, carry all
\* stage entries of their loop in the authored order, and the diseases of a loop
\* come in the order of its disease table
authored_order(data) ==
    /\ \A k, m \in 1..Len(data) :
          (k < m /\ same_pair(data[k], data[m])) => same_pair(data[k], data[k + 1])
    /\ \A b \in 1..Len(blocks) : \A i \in 1..Len(blocks[b].items) :
          LET sel == records_of(data, blocks[b].items[i][1], blocks[b].stagingSystem) IN
          [k \in 1..Len(sel) |-> sel[k].stages[1]] = blocks[b].stage_infos
    /\ \A b \in 1..Len(blocks) :
          LET sel == SelectSeq(data, LAMBDA r : in_block(r, b)) IN
          \A t \in 1..(Len(sel) - 1) : item_index(sel[t], b) <= item_index(sel[t + 1], b)

\* C9 as stated: in the list json.dump has written, the records of every
\* (disease, stagingSystem) pair are contiguous and in the authored order, the
\* diseases in table order, and within EVERY pair severity ascends.
C9_AsStated ==
    pc["d6"] = "close" =>
       /\ authored_order(data_d6)
       /\ \A k \in 1..(Len(data_d6) - 1) :
             same_pair(data_d6[k], data_d6[k + 1]) =>
                severity_of(data_d6[k]) < severity_of(data_d6[k + 1])

\* C9 amended: as above, but the authored order is ascending severity for every
\* staging system except GCS and Forrest, whose stages are authored and written
\* from the most severe to the mildest.
C9_AuthoredOrder ==
    pc["d6"] = "close" =>
       /\ authored_order(data_d6)
       /\ \A k \in 1..(Len(data_d6) - 1) :
             same_pair(data_d6[k], data_d6[k + 1]) =>
                IF data_d6[k].stagingSystem \in {"GCS", "Forrest"}
                THEN severity_of(data_d6[k]) > severity_of(data_d6[k + 1])
                ELSE severity_of(data_d6[k]) < severity_of(data_d6[k + 1])

C9_Witness ==
    /\ pc["d6"] = "close"
    /\ Len(records_of(data_d6, "\\u610f\\u8bc6\\u969c\\u788d", "GCS")) = 3
    /\ Len(records_of(data_d6, "\\u80ba\\u764c", "TNM")) = 4

\* C10: every department record has a non-negative integer bedCount, and a
\* record with bedCount 0 has no wards.
C10_BedsAndWards ==
    \A k \in 1..Len(data_d8) :
       /\ data_d8[k].bedCount \in Nat
       /\ data_d8[k].bedCount = 0 => data_d8[k].wards = <<>>

C10_Witness ==
    /\ pc["d8"] = "done"
    /\ \E k \in 1..Len(data_d8) : data_d8[k].bedCount = 0 /\ data_d8[k].wards = <<>>


\* the steps a run may take from one place to the next
phase_steps ==
    { <<"collect", "open">>, <<"open", "dump">>, <<"dump", "close">>,
      <<"close", "report">>, <<"report", "report2">>, <<"report", "done">>,
      <<"report2", "done">>, <<"open", "failed">>, <<"dump", "failed">> }

\* the lines a run of g has printed when it returns
summary_lines(g) ==
    CASE g = "d2" -> << "Generated " \o ToString(Len(soap_templates)) \o " SOAP templates.",
                        "Output saved to data/d2_soap_templates.json" >>
      [] g = "d6" -> << "Generated " \o ToString(Len(data_d6))
                        \o " disease staging entries. Output saved to data/d6_disease_staging.json" >>
      [] g = "d8" -> << "Generated " \o ToString(Len(data_d8))
                        \o " department mapping entries. Output saved to data/d8_department_mapping.json" >>

\* C11: a run goes collect -> serialize -> report and never back; the file is
\* opened only when the whole list is built; the list does not change once the
\* file is being opened; a line is printed only when the file is written and
\* closed; the lines printed give the number of records written and the path
\* written.
C11_PhaseOrder ==
    /\ [](\A g \in Generators :
            pc[g] = "done" =>
               /\ stdout[g] = summary_lines(g)
               /\ Len(collected(g)) = table_count(g)
               /\ fs[output_path(g)].exists)
    /\ [][\A g \in Generators :
            /\ pc'[g] # pc[g] =>
                  \/ <<pc[g], pc'[g]>> \in phase_steps
                  \/ pc[g] \in {"idle", "done", "failed"} /\ pc'[g] = "collect"
            /\ (~fh[g] /\ fh'[g]) => Len(collected(g)) = table_count(g)
            /\ pc[g] \in {"open", "dump", "close", "report", "report2"} =>
                  collected(g)' = collected(g)
            /\ stdout'[g] \notin {stdout[g], <<>>} =>
                  /\ ~fh[g]
                  /\ fs[output_path(g)] =
                        [exists |-> TRUE, text |-> json_dump(collected(g), keys_of(g))]
                  /\ fs'[output_path(g)] = fs[output_path(g)]]_vars

C11_Witness ==
    /\ pc["d6"] = "done" /\ Len(stdout["d6"]) = 1
    /\ pc["d2"] = "done" /\ Len(stdout["d2"]) = 2

\* C12: a run whose open or write raised has printed nothing and holds no open
\* file; from there it takes no further step (only a new run can follow); a
\* failed open leaves every file as it was; a failed write leaves the file in
\* place with what was written, and nothing removes or rewrites it afterwards.
C12_UnhandledFault ==
    /\ [](\A g \in Generators : pc[g] = "failed" => stdout[g] = <<>> /\ ~fh[g])
    /\ [][\A g \in Generators :
            /\ pc[g] = "failed" =>
                  /\ pc'[g] \in {"failed", "collect"}
                  /\ fs'[output_path(g)] = fs[output_path(g)]
            /\ (pc[g] = "open" /\ pc'[g] = "failed") => fs' = fs
            /\ (pc[g] = "dump" /\ pc'[g] = "failed") =>
                  /\ fs'[output_path(g)].exists
                  /\ \A p \in Paths \ {output_path(g)} : fs'[p] = fs[p]]_vars

C12_Witness ==
    \E g \in Generators :
       /\ pc[g] = "failed" /\ successes[g] = 0 /\ stdout[g] = <<>>
       /\ fs[output_path(g)].exists
       /\ fs[output_path(g)].text \notin {"", other_content.text}

\* the list a generator builds when its loops run from the first iteration to
\* the last with nothing in between
alone_list ==
    [g \in Generators |->
       CASE g = "d2" -> [k \in 1..Len(diseases) |-> template(diseases[k])]
         [] g = "d6" -> LET RECURSIVE upto(_)
                            upto(b) ==
                               IF b = 0 THEN <<>>
                               ELSE LET block == blocks[b]
                                        nj == Len(block.stage_infos)
                                    IN upto(b - 1) \o
                                       [k \in 1..(Len(block.items) * nj) |->
                                          staging_record(block,
                                                         block.items[((k - 1) \div nj) + 1],
                                                         block.stage_infos[((k - 1) % nj) + 1])]
                        IN upto(Len(blocks))
         [] g = "d8" -> departments]

\* the file a generator leaves when it runs alone
alone_output ==
    [g \in Generators |->
       [exists |-> TRUE, text |-> json_dump(alone_list[g], keys_of(g))]]

\* C13: the three generators write three different paths, the ones named; a
\* step changes a file only if it is the open or the write of the generator
\* whose path it is, so a run leaves the other two files as they were; and
\* however the runs are ordered or interleaved, a generator that has finished
\* has left at its path what it leaves when it runs alone.
C13_Independent ==
    /\ [](/\ DOMAIN fs = {"data/d2_soap_templates.json",
                          "data/d6_disease_staging.json",
                          "data/d8_department_mapping.json"}
          /\ \A g, h \in Generators : output_path(g) = output_path(h) => g = h
          /\ \A g \in Generators :
                pc[g] = "done" => fs[output_path(g)] = alone_output[g])
    /\ [][\A p \in DOMAIN fs :
             fs'[p] # fs[p] =>
                \E g \in Generators :
                   /\ output_path(g) = p
                   /\ pc[g] \in {"open", "dump"}
                   /\ pc'[g] # pc[g]
                   /\ \A h \in Generators \ {g} : pc'[h] = pc[h]]_vars

\* d2 and d6 have both written with both files open at the same time
C13_Witness ==
    /\ pc["d2"] = "close" /\ fh["d2"]
    /\ pc["d6"] = "close" /\ fh["d6"]
    /\ fs[output_path("d2")] = alone_output["d2"]
    /\ fs[output_path("d6")] = alone_output["d6"]

====
